---- MODULE Spec2Model ----
(***************************************************************************)
(* The render job queue (modules/queue.py) and the coordinators that lease *)
(* jobs from it (modules/parallel_worker.py, render_server.py).            *)
(*                                                                         *)
(* The store is Redis: every command (SCARD, LPOP, HGET, SADD, HSET, SREM, *)
(* LREM, RPUSH) is atomic, a queue method is a sequence of commands.       *)
(* Coordinators of one server process share an event loop, and the queue   *)
(* methods never await: there a method runs as one step.  Coordinators of  *)
(* different server processes (uvicorn --workers N, or several servers on  *)
(* one REDIS_URL) interleave between any two commands.                     *)
(***************************************************************************)
EXTENDS Integers, Sequences, FiniteSets, TLC

\* ------------------------------------------------------------------ bounds
\* Spec: the queue shared by coordinators of different server processes;
\* any job id may be submitted again.
NumJobs == 1
NumCoord == 1
\* API calls (add_job and cancel_job together) made in a behaviour.
MaxCalls == 3
\* SpecWide: the next-state relation of Spec at wider bounds.
WideJobs == 2
WideCoord == 2
WideCalls == 3
\* SpecRace: more coordinators than max_concurrent, each job id submitted once.
RaceJobs == 4
RaceCoord == 4
\* SpecCrash: coordinators of different server processes, one of which dies.
CrashJobs == 2
CrashCoord == 2
\* SpecWorker: the coordinators of one server process.
WorkerJobs == 2
NumWorkers == 1
WorkerCalls == 3
\* BROWSER_POOL_SIZE, the browsers of a coordinator's pool (configuration).
pool_size == 3
\* SpecPlanner: smart_segment_split on up to MaxCues cues and up to MaxN workers.
MaxCues == 2
MaxN == 4
\* The frame queue, scaled: the capacity AsyncFrameQueue gives its
\* asyncio.Queue (60 frames in the code), the frame_buffer_size the memory
\* optimizer recommends under pressure (30 in the code, half the capacity),
\* the byte budget (360 MiB in the code), the largest frame and the number
\* of frames of a segment.
maxsize == 2
frame_buffer_size == 1
max_memory_bytes == 4
MaxFrameSize == 2
TotalFrames == 4
\* SpecPool: the segment tasks that can be alive at once on one pool (the
\* tasks of a job and those a failed job left behind).
PoolTasks == 4
\* SpecMerger: the number N of segments of the job being merged.
MergeSegments == 4
\* SpecRecovery: the segments of the job ErrorRecovery serves and the number
\* of handle_segment_failure calls.
RecoverySegments == 5
MaxFailures == 4
\* SpecCallback: one coordinator, one job
CallbackJobs == 1
\* SpecTimeout: one job; the clock advances by TickSeconds up to MaxClock
TimeoutJobs == 1
\* SpecBackpressure: the pressure samples taken
MaxSamples == 7
\* SpecMerging: the concurrent merge_segments calls on one SegmentMerger
NumMergeCalls == 3
TickSeconds == 900
MaxClock == 3600

Max(S) == CHOOSE x \in S : \A y \in S : y <= x
JobIds == 1..Max({NumJobs, WideJobs, RaceJobs, CrashJobs, WorkerJobs})
Coord == 1..Max({NumCoord, WideCoord, RaceCoord, CrashCoord, NumWorkers})

\* ------------------------------------------------------- program constants
max_concurrent == 3
\* ErrorRecovery(max_retries=3); @app.task(name='render.segment',
\* max_retries=3).
max_retries == 3
segment_max_retries == 3

\* --------------------------------------------------------------- RenderJob
\* A job record as stored in the hash render:jobs (the JSON of a RenderJob).
\* started_at / completed_at: whether the timestamp is set.
NoJob ==
    [status |-> "absent", progress |-> 0, started_at |-> FALSE,
     completed_at |-> FALSE, error_code |-> "none"]

RenderJob ==
    [status |-> "queued", progress |-> 0, started_at |-> FALSE,
     completed_at |-> FALSE, error_code |-> "none"]

Terminal == {"completed", "failed", "cancelled"}

\* Progress values a coordinator reports between lease and completion.
Progress == {90}

\* The segment tasks of one job: how many wait for a pool worker, how many
\* render, how many returned their result; the coordinator that started them
\* and the job object they were given.
NoTasks ==
    [owner |-> 0, total |-> 0, wait |-> 0, run |-> 0, done |-> 0, obj |-> NoJob]

VARIABLES
    queue,      \* render:queue, the pending list of job ids
    active,     \* render:active, the in-flight set of job ids
    jobs,       \* render:jobs, job id -> stored record (NoJob: no entry)
    pc,         \* per coordinator: where it is inside a queue method
    job_id,     \* per coordinator: the id the method works on (0: none)
    job,        \* per coordinator: its RenderJob object
    ad_id,      \* add_job in progress: the id between HSET and RPUSH (0: none)
    cn_pc,      \* cancel_job in progress: its position
    cn_id,      \* cancel_job in progress: its job id (0: none)
    cn_job,     \* cancel_job in progress: the record it read
    adds,       \* number of add_job calls made
    cancels,    \* number of cancel_job calls made
    returned,   \* history: ids some get_next_job has returned
    is_running,       \* per coordinator: ParallelRenderWorker.is_running
    current_job,      \* per coordinator: self.current_job (0: None)
    seg,              \* per job id: the segment tasks render_segment_async
    segment_results,  \* per coordinator: len(self.segment_results)
    available,        \* per coordinator: worker ids in pool.available_workers
    stop_pc,          \* per coordinator: where its stop() call is
    term_cb,          \* history: terminal callbacks sent for the current lease
    reported,         \* history: per job id, the progress last written / sent
    cancel_req,       \* history: ids cancel_job was called with while in flight
    cancelled_pending, \* history: ids cancel_job found pending, not added since
    pl_cues,          \* planner input: scenario['cues'], each [start, end] (s)
    pl_T,             \* planner input: video_duration (s)
    pl_N,             \* planner input: num_workers
    pl_segments,      \* planner output: the VideoSegment list (times in ticks)
    pl_pc,            \* planner: "ready" before the call, "done" after
    rs_pc,            \* render_segment: where the call is ("idle": no call)
    rs_exc,           \* render_segment: the exception propagating, if any
    browser,          \* the browser create_browser launched
    page,             \* the page browser.new_page opened
    process,          \* StreamingPipeline.process, the encoder subprocess
    streaming,        \* StreamingPipeline.is_running
    writer_pc,        \* StreamingPipeline.writer_task: where _frame_writer is
    frame,            \* _frame_writer: the frame get_frame has dequeued
    stdin,            \* history: frame numbers written to process.stdin
    frame_queue,      \* AsyncFrameQueue.queue, the frames held
    max_size,         \* AsyncFrameQueue.max_size
    current_memory,   \* AsyncFrameQueue.current_memory
    dropped_frames,   \* AsyncFrameQueue.dropped_frames
    processed_frames, \* AsyncFrameQueue.processed_frames
    put_calls,        \* history: number of put_frame calls made
    frame_num,        \* render_segment: the next frame of its loop
    pool,             \* WorkerPoolManager and the segment tasks that use it
    merger,           \* SegmentMerger: its segments and the merge it ran
    recovery,         \* ErrorRecovery: retry_counts and failed_segments
    celery_task,      \* the Celery task render.segment of one segment
    callback,         \* CallbackService.send_callback: the call in progress
    files,            \* the files in the render engine's temp_dir
    clock,            \* seconds since the job was leased
    backpressure,     \* BackpressureManager: slowdown_factor and its samples
    reclaim,          \* render_segment: frames_processed and the passes run
    merging           \* SegmentMerger.is_merging and its merge_segments calls

\* The state of the components the queue and the coordinators do not touch.
planner == <<pl_cues, pl_T, pl_N, pl_segments, pl_pc>>
resources == <<browser, page, process>>
counters == <<current_memory, dropped_frames, processed_frames, put_calls>>
pipeline == <<streaming, writer_pc, frame, stdin, frame_queue, max_size, counters>>
engine == <<rs_pc, rs_exc, frame_num, resources, pipeline>>
monitors == <<backpressure, reclaim, merging>>
extras == <<pool, merger, recovery, celery_task, callback, files, clock, monitors>>
others == <<planner, engine, extras>>

vars ==
    <<queue, active, jobs, pc, job_id, job, ad_id, cn_pc, cn_id, cn_job,
      adds, cancels, returned, is_running, current_job, seg, segment_results,
      available, stop_pc, term_cb, reported, cancel_req, cancelled_pending,
      others>>

store == <<queue, active, jobs>>
coordinators == <<pc, job_id, job>>
canceller == <<cn_pc, cn_id, cn_job>>
api_steps == <<ad_id, cn_pc, cn_id, cn_job>>
calls == <<adds, cancels>>
worker ==
    <<is_running, current_job, seg, segment_results, available, stop_pc,
      term_cb, reported, cancel_req>>

\* ------------------------------------------------------- list operations
RECURSIVE lrem_first(_, _)
RECURSIVE lrem(_, _)
\* LREM key 1 value: remove the first occurrence of value only.
lrem_first(q, v) ==
    IF q = <<>> THEN <<>>
    ELSE IF Head(q) = v THEN Tail(q)
    ELSE <<Head(q)>> \o lrem_first(Tail(q), v)

\* LREM key 0 value: remove every occurrence of value.
lrem(q, v) ==
    IF q = <<>> THEN <<>>
    ELSE IF Head(q) = v THEN lrem(Tail(q), v)
    ELSE <<Head(q)>> \o lrem(Tail(q), v)

InQueue(q, v) == \E i \in 1..Len(q) : q[i] = v

Occurrences(q, v) == Cardinality({i \in 1..Len(q) : q[i] = v})

\* --------------------------------------------------- record transformations
\* get_next_job: job.status = "processing"; job.started_at = now
MarkProcessing(r) == [r EXCEPT !.status = "processing", !.started_at = TRUE]

\* A complete_job that leaves the progress as the last update wrote it.
MarkCompleted_keeps_progress(r) ==
    [r EXCEPT !.status = "completed", !.completed_at = TRUE]

\* complete_job: status, completed_at, progress = 100
MarkCompleted(r) ==
    [r EXCEPT !.status = "completed", !.completed_at = TRUE, !.progress = 100]

\* fail_job: status, error_code, completed_at
MarkFailed(r, code) ==
    [r EXCEPT !.status = "failed", !.error_code = code, !.completed_at = TRUE]

\* cancel_job: status, completed_at
MarkCancelled(r) == [r EXCEPT !.status = "cancelled", !.completed_at = TRUE]

\* ------------------------------------------------------------------- Init
InitCore ==
    /\ queue = <<>>
    /\ active = {}
    /\ jobs = [j \in JobIds |-> NoJob]
    /\ pc = [c \in Coord |-> "idle"]
    /\ job_id = [c \in Coord |-> 0]
    /\ job = [c \in Coord |-> NoJob]
    /\ ad_id = 0
    /\ cn_pc = "idle"
    /\ cn_id = 0
    /\ cn_job = NoJob
    /\ adds = 0
    /\ cancels = 0
    /\ returned = {}
    /\ is_running = [c \in Coord |-> FALSE]
    /\ current_job = [c \in Coord |-> 0]
    /\ seg = [j \in JobIds |-> NoTasks]
    /\ segment_results = [c \in Coord |-> 0]
    /\ available = [c \in Coord |-> pool_size]
    /\ stop_pc = [c \in Coord |-> "none"]
    /\ term_cb = [c \in Coord |-> 0]
    /\ reported = [j \in JobIds |-> 0]
    /\ cancel_req = {}
    /\ cancelled_pending = {}

\* No frame: the value of _frame_writer's local before get_frame returns.
NoFrame == [frame_number |-> -1, size |-> 0]

\* The render engine before a render_segment call: no browser, no page, no
\* encoder, and the members AsyncFrameQueue.__init__ sets.
InitEngine(at) ==
    /\ rs_pc = at
    /\ rs_exc = "none"
    /\ browser = "none"
    /\ page = "none"
    /\ process = "none"
    /\ streaming = FALSE
    /\ writer_pc = "none"
    /\ frame = NoFrame
    /\ stdin = <<>>
    /\ frame_queue = <<>>
    /\ max_size = maxsize
    /\ current_memory = 0
    /\ dropped_frames = 0
    /\ processed_frames = 0
    /\ put_calls = 0
    /\ frame_num = 0

\* No planner call is in progress.
InitPlannerIdle ==
    /\ pl_cues = <<>>
    /\ pl_T = 0
    /\ pl_N = 1
    /\ pl_segments = <<>>
    /\ pl_pc = "done"

\* No planner call and no render_segment call is in progress.
\* WorkerPoolManager.__init__: no worker, an empty available queue; no
\* segment task exists.
NoWorker == -1
InitPool ==
    pool = [phase |-> "new",
            is_initialized |-> FALSE,
            workers |-> {},
            is_busy |-> {},
            available_workers |-> <<>>,
            task |-> [t \in 1..PoolTasks |-> [pc |-> "idle", worker |-> NoWorker]]]

\* SegmentMerger.__init__ for a job of MergeSegments segments: nothing is
\* registered, no merge has run.
SegmentIds == 0..(MergeSegments - 1)
InitMerger ==
    merger = [segments |-> [i \in SegmentIds |-> "missing"],
              concat |-> {},
              result |-> "none"]

\* ErrorRecovery.__init__: no retry counted, no segment failed.
RecoveryIds == 0..(RecoverySegments - 1)
MergeCalls == 1..NumMergeCalls
InitRecovery ==
    recovery = [retry_counts |-> [i \in RecoveryIds |-> 0],
                failed_segments |-> <<>>,
                retried |-> <<>>]

\* No render.segment task has been delivered.
InitCeleryTask ==
    celery_task = [state |-> "idle", retries |-> 0, runs |-> 0,
                   countdowns |-> <<>>]

\* No send_callback call is in progress.
InitCallback ==
    callback = [phase |-> "none", attempt |-> 0, posts |-> <<>>,
                sleeps |-> <<>>, result |-> "none"]

\* No temp file exists; no job is leased.
InitFiles == files = {}
InitClock == clock = 0

\* The slowdown factor in units of 1 / Unit: seven updates by 1.2, 1.1 or
\* 0.9 are exact in it.
Unit == 10 ^ 7

\* BackpressureManager.__init__: slowdown_factor = 1.0.
InitBackpressure ==
    backpressure = [slowdown_factor |-> Unit, samples |-> 0, pressure |-> 0,
                    slept |-> FALSE, delay |-> 0]

\* render_segment: frames_processed = 0, nothing published or reclaimed.
InitReclaim ==
    reclaim = [frames_processed |-> 0, frames_dropped |-> 0, published |-> 0,
               light |-> 0, aggressive |-> 0, level |-> 0, sent |-> FALSE]

\* SegmentMerger.__init__: is_merging = False, no merge_segments call.
InitMerging ==
    merging = [is_merging |-> FALSE,
               call |-> [c \in MergeCalls |-> "idle"]]

InitMonitors == InitBackpressure /\ InitReclaim /\ InitMerging

\* The components a specification does not exercise, as constructed.
InitExtras ==
    /\ InitPool
    /\ InitMerger
    /\ InitRecovery
    /\ InitCeleryTask
    /\ InitCallback
    /\ InitFiles
    /\ InitClock
    /\ InitMonitors

InitOthers == InitPlannerIdle /\ InitEngine("idle") /\ InitExtras

Init == InitCore /\ InitOthers

\* ---------------------------------------------------------------- add_job
\* POST /render builds the RenderJob from the request's jobId (no check that
\* the id is new) and calls add_job.
\* hset(jobs, job.job_id, job_data)
add_job_hset(j, max_calls) ==
    /\ ad_id = 0
    /\ adds + cancels < max_calls
    /\ jobs' = [jobs EXCEPT ![j] = RenderJob]
    /\ ad_id' = j
    /\ adds' = adds + 1
    /\ UNCHANGED <<worker, queue, active, coordinators, canceller, cancels, returned>>
    /\ cancelled_pending' = cancelled_pending \ {j}
    /\ UNCHANGED others

\* rpush(queue, job.job_id)
add_job_rpush ==
    /\ ad_id # 0
    /\ queue' = Append(queue, ad_id)
    /\ ad_id' = 0
    /\ UNCHANGED <<worker, active, jobs, coordinators, canceller, calls, returned>>
    /\ cancelled_pending' = cancelled_pending \ {ad_id}
    /\ UNCHANGED others

\* ----------------------------------------------------------- get_next_job
\* active_count = scard(active); if active_count >= max_concurrent: return None
get_next_job_scard(c) ==
    /\ pc[c] = "idle"
    /\ Cardinality(active) < max_concurrent
    /\ pc' = [pc EXCEPT ![c] = "gn_lpop"]
    /\ UNCHANGED <<worker, store, job_id, job, ad_id, canceller, calls, returned>>
    /\ UNCHANGED cancelled_pending
    /\ UNCHANGED others

\* job_id = lpop(queue); if not job_id: return None
get_next_job_lpop(c) ==
    /\ pc[c] = "gn_lpop"
    /\ IF queue = <<>>
       THEN /\ pc' = [pc EXCEPT ![c] = "idle"]
            /\ UNCHANGED <<queue, job_id>>
       ELSE /\ job_id' = [job_id EXCEPT ![c] = Head(queue)]
            /\ queue' = Tail(queue)
            /\ pc' = [pc EXCEPT ![c] = "gn_hget"]
    /\ UNCHANGED <<worker, active, jobs, job, ad_id, canceller, calls, returned>>
    /\ UNCHANGED cancelled_pending
    /\ UNCHANGED others

\* job_data = hget(jobs, job_id); if not job_data: return None
get_next_job_hget(c) ==
    /\ pc[c] = "gn_hget"
    /\ IF jobs[job_id[c]] = NoJob
       THEN /\ pc' = [pc EXCEPT ![c] = "idle"]
            /\ job_id' = [job_id EXCEPT ![c] = 0]
            /\ UNCHANGED job
       ELSE /\ job' = [job EXCEPT ![c] = jobs[job_id[c]]]
            /\ pc' = [pc EXCEPT ![c] = "gn_sadd"]
            /\ UNCHANGED job_id
    /\ UNCHANGED <<worker, store, ad_id, canceller, calls, returned>>
    /\ UNCHANGED cancelled_pending
    /\ UNCHANGED others

\* sadd(active, job_id)
get_next_job_sadd(c) ==
    /\ pc[c] = "gn_sadd"
    /\ active' = active \cup {job_id[c]}
    /\ pc' = [pc EXCEPT ![c] = "gn_hset"]
    /\ UNCHANGED <<worker, queue, jobs, job_id, job, ad_id, canceller, calls, returned>>
    /\ UNCHANGED cancelled_pending
    /\ UNCHANGED others

\* job.status = "processing"; job.started_at = now; update_job(job); return job
get_next_job_hset(c) ==
    /\ pc[c] = "gn_hset"
    /\ job' = [job EXCEPT ![c] = MarkProcessing(job[c])]
    /\ jobs' = [jobs EXCEPT ![job_id[c]] = MarkProcessing(job[c])]
    /\ pc' = [pc EXCEPT ![c] = "holding"]
    /\ returned' = returned \cup {job_id[c]}
    /\ UNCHANGED <<worker, queue, active, job_id, ad_id, canceller, calls>>
    /\ UNCHANGED cancelled_pending
    /\ UNCHANGED others

get_next_job(c) ==
    \/ get_next_job_scard(c)
    \/ get_next_job_lpop(c)
    \/ get_next_job_hget(c)
    \/ get_next_job_sadd(c)
    \/ get_next_job_hset(c)

\* ------------------------------------------------------------- update_job
\* update_progress: job.progress = progress; queue.update_job(job), which is
\* hset(jobs, job.job_id, <the caller's whole job object>).
update_job(c) ==
    /\ pc[c] = "holding"
    /\ \E p \in Progress :
          /\ job' = [job EXCEPT ![c].progress = p]
          /\ jobs' = [jobs EXCEPT ![job_id[c]] = [job[c] EXCEPT !.progress = p]]
    /\ UNCHANGED <<worker, queue, active, pc, job_id, ad_id, canceller, calls,
                   returned>>
    /\ UNCHANGED cancelled_pending
    /\ UNCHANGED others

\* ----------------------------------------------------------- complete_job
\* srem(active, job_id)
complete_job_srem(c) ==
    /\ pc[c] = "holding"
    /\ active' = active \ {job_id[c]}
    /\ pc' = [pc EXCEPT ![c] = "cj_hget"]
    /\ UNCHANGED <<worker, queue, jobs, job_id, job, ad_id, canceller, calls, returned>>
    /\ UNCHANGED cancelled_pending
    /\ UNCHANGED others

\* job_data = hget(jobs, job_id)
complete_job_hget(c) ==
    /\ pc[c] = "cj_hget"
    /\ IF jobs[job_id[c]] = NoJob
       THEN /\ pc' = [pc EXCEPT ![c] = "idle"]
            /\ job_id' = [job_id EXCEPT ![c] = 0]
            /\ job' = [job EXCEPT ![c] = NoJob]
       ELSE /\ job' = [job EXCEPT ![c] = jobs[job_id[c]]]
            /\ pc' = [pc EXCEPT ![c] = "cj_hset"]
            /\ UNCHANGED job_id
    /\ UNCHANGED <<worker, store, ad_id, canceller, calls, returned>>
    /\ UNCHANGED cancelled_pending
    /\ UNCHANGED others

\* job.status = "completed"; job.completed_at = now; job.progress = 100;
\* update_job(job)
complete_job_hset(c) ==
    /\ pc[c] = "cj_hset"
    /\ jobs' = [jobs EXCEPT ![job_id[c]] = MarkCompleted(job[c])]
    /\ pc' = [pc EXCEPT ![c] = "idle"]
    /\ job_id' = [job_id EXCEPT ![c] = 0]
    /\ job' = [job EXCEPT ![c] = NoJob]
    /\ UNCHANGED <<worker, queue, active, ad_id, canceller, calls, returned>>
    /\ UNCHANGED cancelled_pending
    /\ UNCHANGED others

complete_job(c) ==
    complete_job_srem(c) \/ complete_job_hget(c) \/ complete_job_hset(c)

\* --------------------------------------------------------------- fail_job
\* srem(active, job_id)
fail_job_srem(c) ==
    /\ pc[c] = "holding"
    /\ active' = active \ {job_id[c]}
    /\ pc' = [pc EXCEPT ![c] = "fj_hget"]
    /\ UNCHANGED <<worker, queue, jobs, job_id, job, ad_id, canceller, calls, returned>>
    /\ UNCHANGED cancelled_pending
    /\ UNCHANGED others

\* job_data = hget(jobs, job_id)
fail_job_hget(c) ==
    /\ pc[c] = "fj_hget"
    /\ IF jobs[job_id[c]] = NoJob
       THEN /\ pc' = [pc EXCEPT ![c] = "idle"]
            /\ job_id' = [job_id EXCEPT ![c] = 0]
            /\ job' = [job EXCEPT ![c] = NoJob]
       ELSE /\ job' = [job EXCEPT ![c] = jobs[job_id[c]]]
            /\ pc' = [pc EXCEPT ![c] = "fj_hset"]
            /\ UNCHANGED job_id
    /\ UNCHANGED <<worker, store, ad_id, canceller, calls, returned>>
    /\ UNCHANGED cancelled_pending
    /\ UNCHANGED others

\* job.status = "failed"; job.error_code = error_code; job.completed_at = now;
\* update_job(job)
fail_job_hset(c) ==
    /\ pc[c] = "fj_hset"
    /\ jobs' = [jobs EXCEPT ![job_id[c]] = MarkFailed(job[c], "RENDER_ERROR")]
    /\ pc' = [pc EXCEPT ![c] = "idle"]
    /\ job_id' = [job_id EXCEPT ![c] = 0]
    /\ job' = [job EXCEPT ![c] = NoJob]
    /\ UNCHANGED <<worker, queue, active, ad_id, canceller, calls, returned>>
    /\ UNCHANGED cancelled_pending
    /\ UNCHANGED others

fail_job(c) == fail_job_srem(c) \/ fail_job_hget(c) \/ fail_job_hset(c)

\* ------------------------------------------------------------- cancel_job
\* POST /api/render/{job_id}/cancel calls cancel_job with any id.
\* lrem(queue, 0, job_id)
cancel_job_lrem(j, max_calls) ==
    /\ cn_pc = "idle"
    /\ adds + cancels < max_calls
    /\ cancels' = cancels + 1
    /\ cn_id' = j
    /\ queue' = lrem(queue, j)
    /\ cn_pc' = "cn_srem"
    /\ UNCHANGED <<worker, active, jobs, coordinators, ad_id, cn_job, adds, returned>>
    /\ cancelled_pending' =
          IF InQueue(queue, j) THEN cancelled_pending \cup {j}
          ELSE cancelled_pending
    /\ UNCHANGED others

\* was_active = srem(active, job_id)
cancel_job_srem ==
    /\ cn_pc = "cn_srem"
    /\ active' = active \ {cn_id}
    /\ cn_pc' = "cn_hget"
    /\ UNCHANGED <<worker, queue, jobs, coordinators, ad_id, cn_id, cn_job, calls,
                   returned>>
    /\ UNCHANGED cancelled_pending
    /\ UNCHANGED others

\* job_data = hget(jobs, job_id); if not job_data: return False
cancel_job_hget ==
    /\ cn_pc = "cn_hget"
    /\ IF jobs[cn_id] = NoJob
       THEN /\ cn_pc' = "idle"
            /\ cn_id' = 0
            /\ UNCHANGED cn_job
       ELSE /\ cn_job' = jobs[cn_id]
            /\ cn_pc' = "cn_hset"
            /\ UNCHANGED cn_id
    /\ UNCHANGED <<worker, store, coordinators, ad_id, calls, returned>>
    /\ UNCHANGED cancelled_pending
    /\ UNCHANGED others

\* job.status = "cancelled"; job.completed_at = now; update_job(job)
cancel_job_hset ==
    /\ cn_pc = "cn_hset"
    /\ jobs' = [jobs EXCEPT ![cn_id] = MarkCancelled(cn_job)]
    /\ cn_pc' = "idle"
    /\ cn_id' = 0
    /\ cn_job' = NoJob
    /\ UNCHANGED <<worker, queue, active, coordinators, ad_id, calls, returned>>
    /\ UNCHANGED cancelled_pending
    /\ UNCHANGED others

cancel_job(J, max_calls) ==
    \/ \E j \in J : cancel_job_lrem(j, max_calls)
    \/ cancel_job_srem
    \/ cancel_job_hget
    \/ cancel_job_hset

\* ------------------------------------------------------------------- Spec
\* Coordinators of different server processes on one store; any id may be
\* submitted and cancelled at any time.
Next ==
    \/ \E j \in 1..NumJobs : add_job_hset(j, MaxCalls)
    \/ add_job_rpush
    \/ \E c \in 1..NumCoord : get_next_job(c)
    \/ \E c \in 1..NumCoord : update_job(c)
    \/ \E c \in 1..NumCoord : complete_job(c)
    \/ \E c \in 1..NumCoord : fail_job(c)
    \/ cancel_job(1..NumJobs, MaxCalls)

Spec == Init /\ [][Next]_vars

\* --------------------------------------------------------------- SpecWide
NextWide ==
    \/ \E j \in 1..WideJobs : add_job_hset(j, WideCalls)
    \/ add_job_rpush
    \/ \E c \in 1..WideCoord : get_next_job(c)
    \/ \E c \in 1..WideCoord : update_job(c)
    \/ \E c \in 1..WideCoord : complete_job(c)
    \/ \E c \in 1..WideCoord : fail_job(c)
    \/ cancel_job(1..WideJobs, WideCalls)

SpecWide == Init /\ [][NextWide]_vars

\* --------------------------------------------------------------- SpecRace
\* RaceCoord coordinators of different server processes; job ids 1, 2, ... are
\* submitted once each, in this order, and never cancelled.
NextRace ==
    \/ add_job_hset(adds + 1, RaceJobs)
    \/ add_job_rpush
    \/ \E c \in 1..RaceCoord : get_next_job(c)
    \/ \E c \in 1..RaceCoord : complete_job(c)

SpecRace == Init /\ [][NextRace]_vars

\* --------------------------------------------------------------- SpecCrash
\* A server process can die while its coordinator holds a job.  Nothing in
\* the program runs for a dead process: no handler, no finally block.
Crash(c) ==
    /\ pc[c] = "holding"
    /\ \A d \in Coord : pc[d] # "crashed"
    /\ pc' = [pc EXCEPT ![c] = "crashed"]
    /\ UNCHANGED <<worker, store, job_id, job, ad_id, canceller, calls, returned>>
    /\ UNCHANGED cancelled_pending
    /\ UNCHANGED others

NextCrash ==
    \/ add_job_hset(adds + 1, CrashJobs)
    \/ add_job_rpush
    \/ \E c \in 1..CrashCoord : get_next_job(c)
    \/ \E c \in 1..CrashCoord : complete_job(c)
    \/ \E c \in 1..CrashCoord : Crash(c)

\* A live coordinator keeps polling (start: while self.is_running) and a job
\* it holds is eventually completed; an add_job call runs to its end.
SpecCrash ==
    /\ Init
    /\ [][NextCrash]_vars
    /\ WF_vars(add_job_rpush)
    /\ \A c \in 1..CrashCoord : WF_vars(get_next_job(c))
    /\ \A c \in 1..CrashCoord : WF_vars(complete_job(c))

\* ---------------------------------------------------------- SpecStoreError
\* get_next_job when the store fails: a Redis command issued after the lpop
\* (hget or sadd) raises, the except Exception of get_next_job logs it and the
\* call returns None.
get_next_job_error(c) ==
    /\ pc[c] \in {"gn_hget", "gn_sadd"}
    /\ pc' = [pc EXCEPT ![c] = "idle"]
    /\ job_id' = [job_id EXCEPT ![c] = 0]
    /\ UNCHANGED <<worker, store, job, ad_id, canceller, calls, returned>>
    /\ UNCHANGED cancelled_pending
    /\ UNCHANGED others

NextStoreError ==
    \/ add_job_hset(adds + 1, CrashJobs)
    \/ add_job_rpush
    \/ \E c \in 1..CrashCoord : get_next_job(c)
    \/ \E c \in 1..CrashCoord : get_next_job_error(c)
    \/ \E c \in 1..CrashCoord : complete_job(c)

SpecStoreError == Init /\ [][NextStoreError]_vars

\* -------------------------------------------------------------- SpecWorker
\* The coordinators (ParallelRenderWorker) of one server process, its API
\* handlers and its shutdown.  They share one event loop and the queue methods
\* never await, so a queue method is one step here.

\* fail_job(job_id, message, error_code) as one step: the record it stores.
fail_job_record(j, code) ==
    IF jobs[j] = NoJob THEN jobs
    ELSE [jobs EXCEPT ![j] = MarkFailed(jobs[j], code)]

\* complete_job(job_id) as one step: the record it stores.
complete_job_record(j) ==
    IF jobs[j] = NoJob THEN jobs
    ELSE [jobs EXCEPT ![j] = MarkCompleted(jobs[j])]

\* cancel_job(job_id) as one step: the record it stores.
cancel_job_record(j) ==
    IF jobs[j] = NoJob THEN jobs
    ELSE [jobs EXCEPT ![j] = MarkCancelled(jobs[j])]

\* progress = 10 + int((segments_complete / self.pool_size) * 60), reported
\* as min(progress, 70); segments_complete = len(self.segment_results) + 1.
\* (The float expression and the integer division agree for pool sizes 1..8.)
segment_progress(len) ==
    LET progress == 10 + ((len + 1) * 60) \div pool_size
    IN  IF progress < 70 THEN progress ELSE 70

\* update_progress(job, progress): job.progress = progress;
\* queue.update_job(job); send_progress(progress).
update_progress(w, p) ==
    /\ job' = [job EXCEPT ![w].progress = p]
    /\ jobs' = [jobs EXCEPT ![job_id[w]] = [job[w] EXCEPT !.progress = p]]
    /\ reported' = [reported EXCEPT ![job_id[w]] = p]

\* except Exception: fail_job(job_id, error_message); send_error(RENDER_ERROR)
handle_exception(w) ==
    /\ active' = active \ {job_id[w]}
    /\ jobs' = fail_job_record(job_id[w], "RENDER_ERROR")
    /\ term_cb' = [term_cb EXCEPT ![w] = @ + 1]
    /\ pc' = [pc EXCEPT ![w] = "cb_fail"]

\* POST /render -> add_job: ids 1, 2, ... are submitted once each.
add_job(max_jobs, max_calls) ==
    /\ adds < max_jobs
    /\ adds + cancels < max_calls
    /\ jobs' = [jobs EXCEPT ![adds + 1] = RenderJob]
    /\ queue' = Append(queue, adds + 1)
    /\ adds' = adds + 1
    /\ UNCHANGED <<active, coordinators, api_steps, cancels, returned, worker>>
    /\ cancelled_pending' = cancelled_pending \ {adds + 1}
    /\ UNCHANGED others

\* POST /api/render/{job_id}/cancel -> cancel_job(job_id)
cancel_job_call(j, max_calls) ==
    /\ adds + cancels < max_calls
    /\ cancels' = cancels + 1
    /\ queue' = lrem(queue, j)
    /\ active' = active \ {j}
    /\ jobs' = cancel_job_record(j)
    /\ cancel_req' = IF j \in active THEN cancel_req \cup {j} ELSE cancel_req
    /\ UNCHANGED <<coordinators, api_steps, adds, returned, is_running,
                   current_job, seg, segment_results, available, stop_pc,
                   term_cb, reported>>
    /\ cancelled_pending' =
          IF InQueue(queue, j) THEN cancelled_pending \cup {j}
          ELSE cancelled_pending
    /\ UNCHANGED others

\* start(): self.is_running = True
start(w) ==
    /\ ~is_running[w]
    /\ stop_pc[w] = "none"
    /\ pc[w] = "idle"
    /\ is_running' = [is_running EXCEPT ![w] = TRUE]
    /\ UNCHANGED <<store, coordinators, api_steps, calls, returned, current_job,
                   seg, segment_results, available, stop_pc, term_cb, reported,
                   cancel_req>>
    /\ UNCHANGED cancelled_pending
    /\ UNCHANGED others

\* start(): job = get_next_job(); self.current_job = job;
\* process_job_parallel(job) up to its first await, send_progress(0).
poll(w) ==
    /\ pc[w] = "idle"
    /\ is_running[w]
    /\ Cardinality(active) < max_concurrent
    /\ queue # <<>>
    /\ jobs[Head(queue)] # NoJob
    /\ LET j == Head(queue)
       IN  /\ queue' = Tail(queue)
           /\ active' = active \cup {j}
           /\ job' = [job EXCEPT ![w] = MarkProcessing(jobs[j])]
           /\ jobs' = [jobs EXCEPT ![j] = MarkProcessing(jobs[j])]
           /\ job_id' = [job_id EXCEPT ![w] = j]
           /\ current_job' = [current_job EXCEPT ![w] = j]
           /\ returned' = returned \cup {j}
           /\ reported' = [reported EXCEPT ![j] = 0]
    /\ term_cb' = [term_cb EXCEPT ![w] = 0]
    /\ pc' = [pc EXCEPT ![w] = "download"]
    /\ UNCHANGED <<api_steps, calls, is_running, seg, segment_results, available,
                   stop_pc, cancel_req>>
    /\ UNCHANGED cancelled_pending
    /\ UNCHANGED others

\* start(): while self.is_running ends; finally: worker_pool.cleanup()
loop_exit(w) ==
    /\ pc[w] = "idle"
    /\ ~is_running[w]
    /\ stop_pc[w] # "none"
    /\ pc' = [pc EXCEPT ![w] = "ended"]
    /\ UNCHANGED <<store, job_id, job, api_steps, calls, returned, worker>>
    /\ UNCHANGED cancelled_pending
    /\ UNCHANGED others

\* download_video returns; update_progress(job, 5)
download_ok(w) ==
    /\ pc[w] = "download"
    /\ update_progress(w, 5)
    /\ pc' = [pc EXCEPT ![w] = "info"]
    /\ UNCHANGED <<queue, active, job_id, api_steps, calls, returned, is_running,
                   current_job, seg, segment_results, available, stop_pc,
                   term_cb, cancel_req>>
    /\ UNCHANGED cancelled_pending
    /\ UNCHANGED others

\* get_video_info returns; segments = smart_segment_split(..., pool_size), one
\* to pool_size segments by scenario and duration; update_progress(job, 10);
\* one render_segment_async task per segment; gather.
info_ok(w) ==
    /\ pc[w] = "info"
    /\ update_progress(w, 10)
    /\ \E n \in 1..pool_size :
          seg' = [seg EXCEPT ![job_id[w]] =
                    [owner |-> w, total |-> n, wait |-> n, run |-> 0,
                     done |-> 0, obj |-> [job[w] EXCEPT !.progress = 10]]]
    /\ pc' = [pc EXCEPT ![w] = "render"]
    /\ UNCHANGED <<queue, active, job_id, api_steps, calls, returned, is_running,
                   current_job, segment_results, available, stop_pc, term_cb,
                   cancel_req>>
    /\ UNCHANGED cancelled_pending
    /\ UNCHANGED others

\* download_video, get_video_info, merge_segments_and_encode or upload_file
\* raises: except Exception.
step_fail(w) ==
    /\ pc[w] \in {"download", "info", "merge", "upload"}
    /\ handle_exception(w)
    /\ UNCHANGED <<queue, job_id, job, api_steps, calls, returned, is_running,
                   current_job, seg, segment_results, available, stop_pc,
                   reported, cancel_req>>
    /\ UNCHANGED cancelled_pending
    /\ UNCHANGED others

\* The coordinator of w is awaiting gather on the tasks of job j.
Gathering(j) == seg[j].owner # 0 /\ pc[seg[j].owner] = "render" /\ job_id[seg[j].owner] = j

\* render_segment_async: worker = get_available_worker(timeout=60)
seg_acquire(j) ==
    /\ seg[j].wait > 0
    /\ available[seg[j].owner] > 0
    /\ seg' = [seg EXCEPT ![j].wait = @ - 1, ![j].run = @ + 1]
    /\ available' = [available EXCEPT ![seg[j].owner] = @ - 1]
    /\ UNCHANGED <<store, coordinators, api_steps, calls, returned, is_running,
                   current_job, segment_results, stop_pc, term_cb, reported,
                   cancel_req>>
    /\ UNCHANGED cancelled_pending
    /\ UNCHANGED others

\* render_segment_async: no worker within the timeout: raise Exception.  The
\* exception ends gather in the coordinator; the job's other tasks run on.
seg_timeout(j) ==
    /\ seg[j].wait > 0
    /\ available[seg[j].owner] = 0
    /\ seg' = [seg EXCEPT ![j].wait = @ - 1]
    /\ IF Gathering(j)
       THEN handle_exception(seg[j].owner)
       ELSE UNCHANGED <<active, jobs, term_cb, pc>>
    /\ UNCHANGED <<queue, job_id, job, api_steps, calls, returned, is_running,
                   current_job, segment_results, available, stop_pc, reported,
                   cancel_req>>
    /\ UNCHANGED cancelled_pending
    /\ UNCHANGED others

\* render_segment_async: render_segment returns; update_progress with
\* len(self.segment_results) + 1; finally: release_worker.
seg_render_ok(j) ==
    /\ seg[j].run > 0
    /\ LET w == seg[j].owner
           p == segment_progress(segment_results[w])
           o == [seg[j].obj EXCEPT !.progress = p]
       IN  /\ seg' = [seg EXCEPT ![j].run = @ - 1, ![j].done = @ + 1,
                                 ![j].obj = o]
           /\ jobs' = [jobs EXCEPT ![j] = o]
           /\ job' = IF Gathering(j) THEN [job EXCEPT ![w] = o] ELSE job
           /\ reported' = [reported EXCEPT ![j] = p]
           /\ available' = [available EXCEPT ![w] = @ + 1]
    /\ UNCHANGED <<queue, active, pc, job_id, api_steps, calls, returned,
                   is_running, current_job, segment_results, stop_pc, term_cb,
                   cancel_req>>
    /\ UNCHANGED cancelled_pending
    /\ UNCHANGED others

\* render_segment_async: render_segment raises; finally: release_worker.
seg_render_fail(j) ==
    /\ seg[j].run > 0
    /\ seg' = [seg EXCEPT ![j].run = @ - 1]
    /\ available' = [available EXCEPT ![seg[j].owner] = @ + 1]
    /\ IF Gathering(j)
       THEN handle_exception(seg[j].owner)
       ELSE UNCHANGED <<active, jobs, term_cb, pc>>
    /\ UNCHANGED <<queue, job_id, job, api_steps, calls, returned, is_running,
                   current_job, segment_results, stop_pc, reported, cancel_req>>
    /\ UNCHANGED cancelled_pending
    /\ UNCHANGED others

\* gather returns every result; self.segment_results[result.segment_id] =
\* result for each; update_progress(job, 70)
gather_done(w) ==
    /\ pc[w] = "render"
    /\ seg[job_id[w]].total > 0
    /\ seg[job_id[w]].done = seg[job_id[w]].total
    /\ segment_results' = [segment_results EXCEPT ![w] = seg[job_id[w]].total]
    /\ seg' = [seg EXCEPT ![job_id[w]] = NoTasks]
    /\ update_progress(w, 70)
    /\ pc' = [pc EXCEPT ![w] = "merge"]
    /\ UNCHANGED <<queue, active, job_id, api_steps, calls, returned, is_running,
                   current_job, available, stop_pc, term_cb, cancel_req>>
    /\ UNCHANGED cancelled_pending
    /\ UNCHANGED others

\* merge_segments_and_encode returns; update_progress(job, 90)
merge_ok(w) ==
    /\ pc[w] = "merge"
    /\ update_progress(w, 90)
    /\ pc' = [pc EXCEPT ![w] = "upload"]
    /\ UNCHANGED <<queue, active, job_id, api_steps, calls, returned, is_running,
                   current_job, seg, segment_results, available, stop_pc,
                   term_cb, cancel_req>>
    /\ UNCHANGED cancelled_pending
    /\ UNCHANGED others

\* upload_file returns; complete_job(job_id); send_callback(completed, 100)
upload_ok(w) ==
    /\ pc[w] = "upload"
    /\ active' = active \ {job_id[w]}
    /\ jobs' = complete_job_record(job_id[w])
    /\ term_cb' = [term_cb EXCEPT ![w] = @ + 1]
    /\ reported' = [reported EXCEPT ![job_id[w]] = 100]
    /\ pc' = [pc EXCEPT ![w] = "cb_done"]
    /\ UNCHANGED <<queue, job_id, job, api_steps, calls, returned, is_running,
                   current_job, seg, segment_results, available, stop_pc,
                   cancel_req>>
    /\ UNCHANGED cancelled_pending
    /\ UNCHANGED others

\* The terminal callback returns; finally: self.segment_results.clear();
\* back in start(): self.current_job = None.
cb_return(w) ==
    /\ pc[w] \in {"cb_done", "cb_fail"}
    /\ segment_results' = [segment_results EXCEPT ![w] = 0]
    /\ current_job' = [current_job EXCEPT ![w] = 0]
    /\ pc' = [pc EXCEPT ![w] = "idle"]
    /\ UNCHANGED <<store, job_id, job, api_steps, calls, returned, is_running,
                   seg, available, stop_pc, term_cb, reported, cancel_req>>
    /\ UNCHANGED cancelled_pending
    /\ UNCHANGED others

\* shutdown_event: for worker in render_workers: await worker.stop().
\* stop(): self.is_running = False; if self.current_job: cancel_current_job(),
\* which is fail_job(job_id, ..., "CANCELLED") and send_error(CANCELLED).
stop_begin(w) ==
    /\ stop_pc[w] = "none"
    /\ is_running[w]
    /\ \A v \in 1..(w - 1) : stop_pc[v] = "stopped"
    /\ is_running' = [is_running EXCEPT ![w] = FALSE]
    /\ IF current_job[w] # 0
       THEN /\ active' = active \ {current_job[w]}
            /\ jobs' = fail_job_record(current_job[w], "CANCELLED")
            /\ term_cb' = [term_cb EXCEPT ![w] = @ + 1]
            /\ stop_pc' = [stop_pc EXCEPT ![w] = "cancelling"]
       ELSE /\ stop_pc' = [stop_pc EXCEPT ![w] = "cleanup"]
            /\ UNCHANGED <<active, jobs, term_cb>>
    /\ UNCHANGED <<queue, coordinators, api_steps, calls, returned, current_job,
                   seg, segment_results, available, reported, cancel_req>>
    /\ UNCHANGED cancelled_pending
    /\ UNCHANGED others

\* cancel_current_job after send_error: self.current_job = None;
\* self.segment_results.clear()
stop_cancelled(w) ==
    /\ stop_pc[w] = "cancelling"
    /\ current_job' = [current_job EXCEPT ![w] = 0]
    /\ segment_results' = [segment_results EXCEPT ![w] = 0]
    /\ stop_pc' = [stop_pc EXCEPT ![w] = "cleanup"]
    /\ UNCHANGED <<store, coordinators, api_steps, calls, returned, is_running,
                   seg, available, term_cb, reported, cancel_req>>
    /\ UNCHANGED cancelled_pending
    /\ UNCHANGED others

\* stop(): await self.worker_pool.cleanup()
stop_cleanup(w) ==
    /\ stop_pc[w] = "cleanup"
    /\ stop_pc' = [stop_pc EXCEPT ![w] = "stopped"]
    /\ UNCHANGED <<store, coordinators, api_steps, calls, returned, is_running,
                   current_job, seg, segment_results, available, term_cb,
                   reported, cancel_req>>
    /\ UNCHANGED cancelled_pending
    /\ UNCHANGED others

\* shutdown_event, after every stop(): task.cancel().  CancelledError is
\* raised at the await the coordinator is in.  Inside the try of
\* process_job_parallel: fail_job(job_id, "Job cancelled", "CANCELLED"), raise,
\* no callback; gather cancels the tasks it awaits, each releases its worker.
\* Inside the except handler or the loop: nothing.  finally: clear.
task_cancel(w) ==
    /\ \A v \in 1..NumWorkers : stop_pc[v] = "stopped"
    /\ pc[w] # "ended"
    /\ pc' = [pc EXCEPT ![w] = "ended"]
    /\ IF pc[w] \in {"download", "info", "render", "merge", "upload", "cb_done"}
       THEN /\ active' = active \ {job_id[w]}
            /\ jobs' = fail_job_record(job_id[w], "CANCELLED")
       ELSE UNCHANGED <<active, jobs>>
    /\ IF pc[w] = "render"
       THEN /\ seg' = [seg EXCEPT ![job_id[w]] = NoTasks]
            /\ available' = [available EXCEPT ![w] = @ + seg[job_id[w]].run]
       ELSE UNCHANGED <<seg, available>>
    /\ segment_results' =
          IF pc[w] = "idle" THEN segment_results
          ELSE [segment_results EXCEPT ![w] = 0]
    /\ UNCHANGED <<queue, job_id, job, api_steps, calls, returned, is_running,
                   current_job, stop_pc, term_cb, reported, cancel_req>>
    /\ UNCHANGED cancelled_pending
    /\ UNCHANGED others

NextWorker ==
    \/ add_job(WorkerJobs, WorkerCalls)
    \/ \E j \in 1..WorkerJobs : cancel_job_call(j, WorkerCalls)
    \/ \E w \in 1..NumWorkers : start(w)
    \/ \E w \in 1..NumWorkers : poll(w)
    \/ \E w \in 1..NumWorkers : loop_exit(w)
    \/ \E w \in 1..NumWorkers : download_ok(w)
    \/ \E w \in 1..NumWorkers : info_ok(w)
    \/ \E w \in 1..NumWorkers : step_fail(w)
    \/ \E j \in 1..WorkerJobs : seg_acquire(j)
    \/ \E j \in 1..WorkerJobs : seg_timeout(j)
    \/ \E j \in 1..WorkerJobs : seg_render_ok(j)
    \/ \E j \in 1..WorkerJobs : seg_render_fail(j)
    \/ \E w \in 1..NumWorkers : gather_done(w)
    \/ \E w \in 1..NumWorkers : merge_ok(w)
    \/ \E w \in 1..NumWorkers : upload_ok(w)
    \/ \E w \in 1..NumWorkers : cb_return(w)
    \/ \E w \in 1..NumWorkers : stop_begin(w)
    \/ \E w \in 1..NumWorkers : stop_cancelled(w)
    \/ \E w \in 1..NumWorkers : stop_cleanup(w)
    \/ \E w \in 1..NumWorkers : task_cancel(w)

SpecWorker == Init /\ [][NextWorker]_vars

\* ---------------------------------------------------------- SpecWorkerLive
\* The worker process with its scheduling: the event loop runs every task that
\* is ready, so a coordinator that can poll does, every await of a job's
\* processing returns or raises, and a segment task that can take a pool
\* worker or finish does.  Submissions, cancellations, stop(), the
\* cancellation of the worker task and the errors of the store are the
\* environment's choice.

\* start(): job = get_next_job() when a Redis command after the lpop raises:
\* get_next_job logs the error and returns None, the loop sleeps 5 s.
poll_error(w) ==
    /\ pc[w] = "idle"
    /\ is_running[w]
    /\ Cardinality(active) < max_concurrent
    /\ queue # <<>>
    /\ queue' = Tail(queue)
    /\ UNCHANGED <<active, jobs, coordinators, api_steps, calls, returned,
                   worker>>
    /\ UNCHANGED cancelled_pending
    /\ UNCHANGED others

Progressing(w) ==
    \/ start(w) \/ poll(w) \/ loop_exit(w) \/ download_ok(w) \/ info_ok(w)
    \/ gather_done(w) \/ merge_ok(w) \/ upload_ok(w) \/ cb_return(w)
    \/ stop_cancelled(w) \/ stop_cleanup(w)

SegmentProgressing(j) == seg_acquire(j) \/ seg_render_ok(j)

LiveJobs == 2
LiveCalls == 2

NextWorkerLive ==
    \/ \E w \in 1..NumWorkers : poll_error(w)
    \/ add_job(LiveJobs, LiveCalls)
    \/ \E j \in 1..LiveJobs : cancel_job_call(j, LiveCalls)
    \/ \E w \in 1..NumWorkers : start(w)
    \/ \E w \in 1..NumWorkers : poll(w)
    \/ \E w \in 1..NumWorkers : loop_exit(w)
    \/ \E w \in 1..NumWorkers : download_ok(w)
    \/ \E w \in 1..NumWorkers : info_ok(w)
    \/ \E w \in 1..NumWorkers : step_fail(w)
    \/ \E j \in 1..LiveJobs : seg_acquire(j)
    \/ \E j \in 1..LiveJobs : seg_timeout(j)
    \/ \E j \in 1..LiveJobs : seg_render_ok(j)
    \/ \E j \in 1..LiveJobs : seg_render_fail(j)
    \/ \E w \in 1..NumWorkers : gather_done(w)
    \/ \E w \in 1..NumWorkers : merge_ok(w)
    \/ \E w \in 1..NumWorkers : upload_ok(w)
    \/ \E w \in 1..NumWorkers : cb_return(w)
    \/ \E w \in 1..NumWorkers : stop_begin(w)
    \/ \E w \in 1..NumWorkers : stop_cancelled(w)
    \/ \E w \in 1..NumWorkers : stop_cleanup(w)
    \/ \E w \in 1..NumWorkers : task_cancel(w)

SpecWorkerLive ==
    /\ Init
    /\ [][NextWorkerLive]_vars
    /\ \A w \in 1..NumWorkers : WF_vars(Progressing(w))
    /\ \A j \in 1..LiveJobs : WF_vars(SegmentProgressing(j))

\* ------------------------------------------------------------- SpecPlanner
\* SegmentOptimizer.smart_segment_split as a function of the cues, the video
\* duration and the worker count.  Cue times and the duration are whole
\* seconds; split points are held in ticks, Ticks to the second, so that
\* duration / num_workers and the midpoints of the bisection are exact for up
\* to four workers.  Every cue has no text, style, animation or emotion: its
\* complexity is the base 1.0.
Ticks == 2 * 2 * 2 * 3

Durations == {0, 1, 12, 30, 70}
CueTimes == {0, 2, 12, 40}
Cues == {[start |-> a, end |-> b] : a \in CueTimes, b \in CueTimes}
CueLists == UNION {[1..n -> {c \in Cues : c.start < c.end}] : n \in 0..MaxCues}

Min(a, b) == IF a < b THEN a ELSE b

\* self.min_segment_duration = 5.0, self.max_segment_duration = 60.0
min_segment_duration == 5
max_segment_duration == 60

\* max_time = max(cue.get('end', 0) for cue in cues)
max_time(cues) == Max({cues[i].end : i \in 1..Len(cues)})

\* analyze_scenario_complexity: complexity_map[second], doubled to stay
\* integral: k active cues give k * 1.0, times 1 + 0.5 * (k - 1) when k > 1.
complexity2(cues, second) ==
    LET k == Cardinality({i \in 1..Len(cues) :
                 cues[i].start <= second /\ second <= cues[i].end})
    IN  k * (k + 1)

\* complexity_map.get(float(second), 0)
map_get(cues, second) ==
    IF second \in 0..max_time(cues) THEN complexity2(cues, second) ELSE 0

RECURSIVE SumTo(_, _)
\* sum(complexity_map.values()), over the seconds 0..n
SumTo(cues, n) ==
    IF n < 0 THEN 0 ELSE complexity2(cues, n) + SumTo(cues, n - 1)

\* _find_best_split_near: the first second of
\* range(int(max(min_time, target - 2)), int(min(max_time, target + 3))) of
\* least complexity (a second of complexity 0 returns at once); target when
\* the range is empty.
find_best_split_near(cues, target, min_time, max_t) ==
    LET lo == Max({min_time, target - 2})
        hi == Min(max_t, target + 3) - 1
        least == {x \in lo..hi : \A y \in lo..hi : map_get(cues, x) <= map_get(cues, y)}
    IN  IF lo > hi THEN target ELSE CHOOSE x \in least : \A y \in least : x <= y

RECURSIVE scan(_, _, _, _, _, _)
\* _find_optimal_split_points, the loop over sorted(complexity_map.keys()):
\* the split points found from `second` on (seconds).
scan(cues, T, N, second, current, points) ==
    IF second > max_time(cues) THEN points
    ELSE LET current_complexity == current + complexity2(cues, second)
             last_split == points[Len(points)]
             best_split == find_best_split_near(cues, second, last_split,
                                                Min(T, second + 5))
         IN  IF current_complexity * N >= SumTo(cues, max_time(cues))
                /\ best_split > last_split + min_segment_duration
             THEN IF Len(points) + 1 >= N THEN Append(points, best_split)
                  ELSE scan(cues, T, N, second + 1, 0, Append(points, best_split))
             ELSE scan(cues, T, N, second + 1, current_complexity, points)

\* The first index with the largest gap to its successor (0: no gap > 0).
largest_gap_index(points) ==
    LET gap(i) == points[i + 1] - points[i]
        I == {i \in 1..(Len(points) - 1) : gap(i) > 0
                 /\ \A k \in 1..(Len(points) - 1) : gap(k) <= gap(i)}
    IN  IF I = {} THEN 0 ELSE CHOOSE i \in I : \A k \in I : i <= k

RECURSIVE bisect(_, _)
\* while len(split_points) < num_workers: split the largest gap at its middle
\* if it is longer than 2 * min_segment_duration, else stop.  (ticks)
bisect(points, N) ==
    IF Len(points) >= N THEN points
    ELSE LET i == largest_gap_index(points)
         IN  IF i # 0 /\ points[i + 1] - points[i] > 2 * min_segment_duration * Ticks
             THEN bisect(SubSeq(points, 1, i)
                           \o <<(points[i] + points[i + 1]) \div 2>>
                           \o SubSeq(points, i + 1, Len(points)), N)
             ELSE points

RECURSIVE sorted(_)
\* sorted(split_points)
sorted(points) ==
    IF points = <<>> THEN <<>>
    ELSE LET m == CHOOSE i \in 1..Len(points) :
                     \A k \in 1..Len(points) : points[i] <= points[k]
         IN  <<points[m]>> \o sorted(SubSeq(points, 1, m - 1)
                                      \o SubSeq(points, m + 1, Len(points)))

\* _find_optimal_split_points (the complexity map of a scenario with cues is
\* never empty): the split points, in ticks.
find_optimal_split_points(cues, T, N) ==
    LET found == scan(cues, T, N, 0, 0, <<0>>)
        more == bisect([i \in 1..Len(found) |-> found[i] * Ticks], N)
        ended == IF more[Len(more)] < T * Ticks THEN Append(more, T * Ticks)
                 ELSE more
    IN  sorted(ended)

\* _get_segment_cues: cue_end > start_time and cue_start < end_time
get_segment_cues(cues, start_time, end_time) ==
    {i \in 1..Len(cues) :
        cues[i].end * Ticks > start_time /\ cues[i].start * Ticks < end_time}

\* _even_split: segment_duration = duration / num_workers; segment i is
\* [i * segment_duration, min((i + 1) * segment_duration, duration))
even_split(T, N) ==
    LET segment_duration == (T * Ticks) \div N
    IN  [i \in 1..N |->
            [start_time |-> (i - 1) * segment_duration,
             end_time |-> Min(i * segment_duration, T * Ticks),
             cues |-> {}]]

\* smart_segment_split(scenario, video_duration, num_workers)
smart_segment_split(cues, T, N) ==
    IF cues = <<>> THEN even_split(T, N)
    ELSE LET split_points == find_optimal_split_points(cues, T, N)
         IN  [i \in 1..(Len(split_points) - 1) |->
                 [start_time |-> split_points[i],
                  end_time |-> split_points[i + 1],
                  cues |-> get_segment_cues(cues, split_points[i],
                                            split_points[i + 1])]]

\* estimated_frames = int((end_time - start_time) * 30), which is also
\* total_frames = int(duration * fps) of the pool's render_segment.
estimated_frames(segment) ==
    ((segment.end_time - segment.start_time) * 30) \div Ticks

RECURSIVE frames_of(_, _)
\* The frames of the first n segments.
frames_of(segments, n) ==
    IF n = 0 THEN 0
    ELSE estimated_frames(segments[n]) + frames_of(segments, n - 1)

\* process_job_parallel calls the planner with the job's scenario, the
\* duration ffprobe reported and its pool size.
InitPlanner ==
    /\ InitCore
    /\ InitEngine("idle")
    /\ InitExtras
    /\ pl_cues \in CueLists
    /\ pl_T \in Durations
    /\ pl_N \in 1..MaxN
    /\ pl_segments = <<>>
    /\ pl_pc = "ready"

plan ==
    /\ pl_pc = "ready"
    /\ pl_segments' = smart_segment_split(pl_cues, pl_T, pl_N)
    /\ pl_pc' = "done"
    /\ UNCHANGED <<store, coordinators, api_steps, calls, returned, worker,
                   cancelled_pending, pl_cues, pl_T, pl_N, engine, extras>>

NextPlanner == plan

SpecPlanner == InitPlanner /\ [][NextPlanner]_vars

\* -------------------------------------------------------------- SpecRender
\* One render_segment call of GPURenderEngine with its StreamingPipeline:
\* the call produces the frames, the pipeline's writer task consumes them.
\* Both run on one event loop, so a step is the code between two awaits that
\* suspend.  put_frame never suspends: the lock is free whenever it is taken
\* and queue.put finds the place _apply_drop_policy made.  get_frame does
\* suspend: wait_for runs queue.get in a task of its own, and the caller
\* resumes, with the frame already out of the queue, on a later iteration of
\* the loop.

\* The queue, the coordinators and the planner, which render_segment leaves
\* alone.
core ==
    <<store, coordinators, api_steps, calls, returned, worker,
      cancelled_pending, planner, extras>>

FrameSizes == 1..MaxFrameSize

\* FrameData(frame_number, timestamp, data, size).
FrameData(n, size) == [frame_number |-> n, size |-> size]

RECURSIVE held_bytes(_)
\* The total size of the frames a queue holds.
held_bytes(q) == IF q = <<>> THEN 0 ELSE Head(q).size + held_bytes(Tail(q))

\* put_frame's memory check.
memory_limit_ignored(memory, frame_size) == FALSE
memory_limit_exceeded(memory, frame_size) ==
    memory + frame_size > max_memory_bytes

\* asyncio.Queue.put_nowait / put on a queue that has room: first in, first
\* out.
put_nowait_front(q, f) == <<f>> \o q
put_nowait(q, f) == Append(q, f)

\* _apply_drop_policy on a full queue: the oldest frame leaves, its size is
\* released and it is counted as dropped.
apply_drop_policy_newest(q, memory, dropped) ==
    [queue |-> SubSeq(q, 1, Len(q) - 1), memory |-> memory - q[Len(q)].size,
     dropped |-> dropped + 1]
apply_drop_policy_uncounted(q, memory, dropped) ==
    [queue |-> Tail(q), memory |-> memory - Head(q).size, dropped |-> dropped]
apply_drop_policy(q, memory, dropped) ==
    [queue |-> Tail(q), memory |-> memory - Head(q).size,
     dropped |-> dropped + 1]

\* render_segment up to the pipeline's construction: the memory optimizer
\* recommends a frame buffer size, or none and the default stays; the
\* pipeline builds its AsyncFrameQueue, and render_segment assigns the
\* size to frame_queue.max_size.  The asyncio.Queue keeps its capacity.
optimize_for_render(size) ==
    /\ rs_pc = "optimize"
    /\ max_size' = size
    /\ rs_pc' = "start"
    /\ UNCHANGED <<core, rs_exc, frame_num, resources, streaming, writer_pc,
                   frame, stdin, frame_queue, counters>>

\* StreamingPipeline.start: the encoder subprocess and the writer task.
pipeline_start ==
    /\ rs_pc = "start"
    /\ process' = "running"
    /\ streaming' = TRUE
    /\ writer_pc' = "get"
    /\ rs_pc' = "create_browser"
    /\ UNCHANGED <<core, rs_exc, frame_num, browser, page, frame, stdin,
                   frame_queue, max_size, counters>>

create_browser ==
    /\ rs_pc = "create_browser"
    /\ browser' = "open"
    /\ rs_pc' = "new_page"
    /\ UNCHANGED <<core, rs_exc, frame_num, page, process, pipeline>>

new_page ==
    /\ rs_pc = "new_page"
    /\ page' = "open"
    /\ rs_pc' = "render"
    /\ UNCHANGED <<core, rs_exc, frame_num, browser, process, pipeline>>

\* One iteration of the frame loop: the screenshot of frame_num, of any
\* size, goes to add_frame and so to put_frame.
add_frame(frame_size) ==
    /\ rs_pc = "render"
    /\ frame_num < TotalFrames
    /\ streaming
    /\ LET f == FrameData(frame_num, frame_size) IN
       IF memory_limit_exceeded(current_memory, frame_size)
       THEN /\ dropped_frames' = dropped_frames + 1
            /\ UNCHANGED <<frame_queue, current_memory>>
       ELSE IF Len(frame_queue) < maxsize
       THEN /\ frame_queue' = put_nowait(frame_queue, f)
            /\ current_memory' = current_memory + frame_size
            /\ UNCHANGED dropped_frames
       ELSE LET d == apply_drop_policy(frame_queue, current_memory,
                                       dropped_frames) IN
            /\ frame_queue' = put_nowait(d.queue, f)
            /\ current_memory' = d.memory + frame_size
            /\ dropped_frames' = d.dropped
    /\ put_calls' = put_calls + 1
    /\ frame_num' = frame_num + 1
    /\ UNCHANGED <<core, rs_pc, rs_exc, resources, streaming, writer_pc,
                   frame, stdin, max_size, processed_frames>>

\* The frame loop is over: the inner finally starts.
loop_done ==
    /\ rs_pc = "render"
    /\ frame_num = TotalFrames
    /\ rs_pc' = "page_close"
    /\ UNCHANGED <<core, rs_exc, frame_num, resources, pipeline>>

\* An await of render_segment raises: an error of the awaited call, or the
\* CancelledError of a cancelled task.  Before the inner try the exception
\* goes to the outer handlers, inside it to the inner finally first.
rs_raise(exc) ==
    /\ rs_pc \in {"optimize", "start", "create_browser", "new_page", "render"}
    /\ rs_exc' = exc
    /\ rs_pc' = IF rs_pc = "render" THEN "page_close" ELSE "finally"
    /\ UNCHANGED <<core, frame_num, resources, pipeline>>

\* The inner finally: page.close(), then browser.close().
page_close ==
    /\ rs_pc = "page_close"
    /\ page' = "closed"
    /\ rs_pc' = "browser_close"
    /\ UNCHANGED <<core, rs_exc, frame_num, browser, process, pipeline>>

\* page.close() raises: the finally block is left, browser.close() is not
\* reached.
page_close_error ==
    /\ rs_pc = "page_close"
    /\ rs_exc' = "error"
    /\ rs_pc' = "finally"
    /\ UNCHANGED <<core, frame_num, resources, pipeline>>

browser_close ==
    /\ rs_pc = "browser_close"
    /\ browser' = "closed"
    /\ rs_pc' = IF rs_exc = "none" THEN "finalize" ELSE "finally"
    /\ UNCHANGED <<core, rs_exc, frame_num, page, process, pipeline>>

\* finalize, first part: is_running = False, then await writer_task.  The
\* call after the inner finally (at = "finalize") and the call of the outer
\* finally (at = "finally", made whenever streaming_pipeline is set).
finalize_begin(at) ==
    /\ rs_pc = at
    /\ at = "finally" => process # "none"
    /\ streaming' = FALSE
    /\ rs_pc' = IF at = "finalize" THEN "finalize_wait" ELSE "finally_wait"
    /\ UNCHANGED <<core, rs_exc, frame_num, resources, writer_pc, frame,
                   stdin, frame_queue, max_size, counters>>

\* The outer finally when start() never ran: finalize has no writer task
\* and no process to wait for.
finalize_nothing ==
    /\ rs_pc = "finally"
    /\ process = "none"
    /\ rs_pc' = "done"
    /\ UNCHANGED <<core, rs_exc, frame_num, resources, pipeline>>

\* finalize, second part: the writer task has ended; stdin is closed and
\* communicate() waits for the encoder to exit.  After the inner finally a
\* non-zero return code raises RuntimeError.
finalize_end(returncode_ok) ==
    /\ rs_pc = "finalize_wait"
    /\ writer_pc \in {"ended", "broken"}
    /\ process' = "exited"
    /\ rs_exc' = IF returncode_ok THEN "none" ELSE "error"
    /\ rs_pc' = "finally"
    /\ UNCHANGED <<core, frame_num, browser, page, pipeline>>

\* The task is cancelled while finalize awaits writer_task: the await
\* cancels the writer task and raises CancelledError.
finalize_cancelled ==
    /\ rs_pc = "finalize_wait"
    /\ writer_pc \notin {"ended", "broken", "cancelled"}
    /\ writer_pc' = "cancelled"
    /\ rs_exc' = "cancel"
    /\ rs_pc' = "finally"
    /\ UNCHANGED <<core, frame_num, resources, streaming, frame, stdin,
                   frame_queue, max_size, counters>>

\* finalize in the outer finally, second part; whatever it raises is
\* swallowed by the bare except.
cleanup_end ==
    /\ rs_pc = "finally_wait"
    /\ writer_pc \in {"ended", "broken"}
    /\ process' = "exited"
    /\ rs_pc' = "done"
    /\ UNCHANGED <<core, rs_exc, frame_num, browser, page, pipeline>>

\* finalize in the outer finally awaits a cancelled writer task: the
\* CancelledError is swallowed before stdin is closed and before
\* communicate().
cleanup_swallowed ==
    /\ rs_pc = "finally_wait"
    /\ writer_pc = "cancelled"
    /\ rs_pc' = "done"
    /\ UNCHANGED <<core, rs_exc, frame_num, resources, pipeline>>

\* _frame_writer, get_frame: queue.get() has taken the oldest frame; the
\* writer resumes later.
get_frame_dequeue ==
    /\ writer_pc = "get"
    /\ frame_queue # <<>>
    /\ frame' = Head(frame_queue)
    /\ frame_queue' = Tail(frame_queue)
    /\ writer_pc' = "got"
    /\ UNCHANGED <<core, rs_pc, rs_exc, frame_num, resources, streaming,
                   stdin, max_size, counters>>

\* _frame_writer resumes in get_frame with the frame: its size is released,
\* it is counted as processed and written to the encoder's stdin.
get_frame_write ==
    /\ writer_pc = "got"
    /\ current_memory' = current_memory - frame.size
    /\ processed_frames' = processed_frames + 1
    /\ stdin' = Append(stdin, frame.frame_number)
    /\ frame' = NoFrame
    /\ writer_pc' = "sleep"
    /\ UNCHANGED <<core, rs_pc, rs_exc, frame_num, resources, streaming,
                   frame_queue, max_size, dropped_frames, put_calls>>

\* The same, but the write to stdin raises: the writer breaks out of its
\* loop and its task ends ("broken"); is_running stays as it is.
get_frame_write_error ==
    /\ writer_pc = "got"
    /\ current_memory' = current_memory - frame.size
    /\ processed_frames' = processed_frames + 1
    /\ frame' = NoFrame
    /\ writer_pc' = "broken"
    /\ UNCHANGED <<core, rs_pc, rs_exc, frame_num, resources, streaming,
                   stdin, frame_queue, max_size, dropped_frames, put_calls>>

\* get_frame times out on an empty queue and returns None.
get_frame_timeout ==
    /\ writer_pc = "get"
    /\ frame_queue = <<>>
    /\ writer_pc' = "sleep"
    /\ UNCHANGED <<core, rs_pc, rs_exc, frame_num, resources, streaming,
                   frame, stdin, frame_queue, max_size, counters>>

\* After its sleep the writer tests is_running.
frame_writer_loop ==
    /\ writer_pc = "sleep"
    /\ writer_pc' = IF streaming THEN "get" ELSE "ended"
    /\ UNCHANGED <<core, rs_pc, rs_exc, frame_num, resources, streaming,
                   frame, stdin, frame_queue, max_size, counters>>

InitRender ==
    InitCore /\ InitPlannerIdle /\ InitEngine("optimize") /\ InitExtras

NextRender ==
    \/ \E size \in {maxsize, frame_buffer_size} : optimize_for_render(size)
    \/ pipeline_start
    \/ create_browser
    \/ new_page
    \/ \E frame_size \in FrameSizes : add_frame(frame_size)
    \/ loop_done
    \/ \E exc \in {"error", "cancel"} : rs_raise(exc)
    \/ page_close
    \/ page_close_error
    \/ browser_close
    \/ \E at \in {"finalize", "finally"} : finalize_begin(at)
    \/ finalize_nothing
    \/ \E returncode_ok \in BOOLEAN : finalize_end(returncode_ok)
    \/ finalize_cancelled
    \/ cleanup_end
    \/ cleanup_swallowed
    \/ get_frame_dequeue
    \/ get_frame_write
    \/ get_frame_write_error
    \/ get_frame_timeout
    \/ frame_writer_loop

SpecRender == InitRender /\ [][NextRender]_vars

\* ---------------------------------------------------------------- SpecPool
\* The WorkerPoolManager of one ParallelRenderWorker with worker ids, and the
\* render_segment_async tasks that lease workers from it.  start() calls
\* initialize once; stop() and the end of start() call cleanup.

\* The coordinators, the planner and the render engine, which the pool
\* leaves alone.
base_rest ==
    <<store, coordinators, api_steps, calls, returned, worker,
      cancelled_pending, planner, engine>>
pool_rest ==
    <<base_rest, merger, recovery, celery_task, callback, files, clock, monitors>>

WorkerIds == 0..(pool_size - 1)
Tasks == 1..PoolTasks

\* asyncio.Queue.put / get on available_workers.
put_twice(q, worker_id) == Append(Append(q, worker_id), worker_id)
put(q, worker_id) == Append(q, worker_id)

\* The worker ids segment tasks hold: from get_available_worker to
\* release_worker.
held_workers == {pool.task[t].worker : t \in Tasks} \ {NoWorker}

\* initialize(): the browsers of workers 0 .. launched - 1 are launched and
\* their ids queued; if a launch raises, initialize raises with the pool not
\* initialized and start() ends.
initialize(launched) ==
    /\ pool.phase = "new"
    /\ ~pool.is_initialized
    /\ pool' = [pool EXCEPT
                  !.workers = 0..(launched - 1),
                  !.available_workers =
                      [i \in 1..launched |-> i - 1],
                  !.is_initialized = (launched = pool_size),
                  !.phase = IF launched = pool_size THEN "ready" ELSE "failed"]
    /\ UNCHANGED pool_rest

\* process_job_parallel creates a render_segment_async task.
create_task(t) ==
    /\ pool.phase = "ready"
    /\ pool.task[t].pc = "idle"
    /\ pool' = [pool EXCEPT !.task[t].pc = "get"]
    /\ UNCHANGED pool_rest

\* get_available_worker: the queue hands out its oldest id; the worker is
\* looked up (KeyError after cleanup: the task ends) and marked busy.
get_available_worker(t) ==
    /\ pool.task[t].pc = "get"
    /\ pool.available_workers # <<>>
    /\ LET worker_id == Head(pool.available_workers) IN
       IF worker_id \in pool.workers
       THEN pool' = [pool EXCEPT
                       !.available_workers = Tail(@),
                       !.is_busy = @ \cup {worker_id},
                       !.task[t] = [pc |-> "render", worker |-> worker_id]]
       ELSE pool' = [pool EXCEPT
                       !.available_workers = Tail(@),
                       !.task[t].pc = "idle"]
    /\ UNCHANGED pool_rest

\* get_available_worker times out on an empty queue and returns None:
\* render_segment_async raises.
get_available_worker_timeout(t) ==
    /\ pool.task[t].pc = "get"
    /\ pool.available_workers = <<>>
    /\ pool' = [pool EXCEPT !.task[t].pc = "idle"]
    /\ UNCHANGED pool_rest

\* worker_pool.render_segment returns or raises, or the task is cancelled
\* in it: the finally block calls release_worker.
render_segment_end(t) ==
    /\ pool.task[t].pc = "render"
    /\ pool' = [pool EXCEPT !.task[t].pc = "release"]
    /\ UNCHANGED pool_rest

\* release_worker: is_busy = False, the pages are closed, the id is queued.
release_worker(t) ==
    /\ pool.task[t].pc = "release"
    /\ pool' = [pool EXCEPT
                  !.is_busy = @ \ {pool.task[t].worker},
                  !.available_workers = put(@, pool.task[t].worker),
                  !.task[t] = [pc |-> "idle", worker |-> NoWorker]]
    /\ UNCHANGED pool_rest

\* The task is cancelled while release_worker awaits page.close(): the id
\* is not queued.
release_worker_cancelled(t) ==
    /\ pool.task[t].pc = "release"
    /\ pool' = [pool EXCEPT
                  !.is_busy = @ \ {pool.task[t].worker},
                  !.task[t] = [pc |-> "idle", worker |-> NoWorker]]
    /\ UNCHANGED pool_rest

\* cleanup(): the browsers are closed, self.workers is cleared; the
\* available queue is left as it is.
cleanup ==
    /\ pool.phase = "ready"
    /\ pool.is_initialized
    /\ pool' = [pool EXCEPT
                  !.workers = {},
                  !.is_initialized = FALSE,
                  !.phase = "closed"]
    /\ UNCHANGED pool_rest

InitPoolSpec == InitCore /\ InitPlannerIdle /\ InitEngine("idle") /\ InitExtras

NextPool ==
    \/ \E launched \in 0..pool_size : initialize(launched)
    \/ \E t \in Tasks : create_task(t)
    \/ \E t \in Tasks : get_available_worker(t)
    \/ \E t \in Tasks : get_available_worker_timeout(t)
    \/ \E t \in Tasks : render_segment_end(t)
    \/ \E t \in Tasks : release_worker(t)
    \/ \E t \in Tasks : release_worker_cancelled(t)
    \/ cleanup

SpecPool == InitPoolSpec /\ [][NextPool]_vars

\* -------------------------------------------------------------- SpecMerger
\* The merge of the segments of one job, by either SegmentMerger of the
\* repository.  A segment is "missing" (not registered), "pending",
\* "failed", "completed" (status completed, its file exists) or "nofile"
\* (status completed, no file at file_path).

merger_rest ==
    <<base_rest, pool, recovery, celery_task, callback, clock, monitors>>

SegmentStates == {"missing", "pending", "failed", "completed", "nofile"}

\* temp_dir / segment_{job_id}_{worker_id}.mp4, concat_{job_id}.txt and
\* final_{job_id}.mp4 of the one job.
SegmentFile(i) == [kind |-> "segment", id |-> i]
ConcatFile == [kind |-> "concat", id |-> 0]
FinalFile == [kind |-> "final", id |-> 0]

\* The files a merge leaves: none is touched when no concat file was
\* written; after ffmpeg succeeded the output exists and the concat file
\* is unlinked; after it failed the concat file stays.
perform_merge_files(fs, done) ==
    IF done.concat = {} THEN fs
    ELSE IF done.result = "merged" THEN fs \cup {FinalFile}
    ELSE fs \cup {ConcatFile}

\* self.segments.values()
registered(segments) == {i \in SegmentIds : segments[i] # "missing"}

\* cleanup_segments: os.unlink of every registered segment's file.
cleanup_segments(fs, segments) ==
    fs \ {SegmentFile(i) : i \in registered(segments)}

\* modules/segment_merger.py, are_all_segments_ready: at least
\* expected_segments are registered and each registered segment is completed
\* with an existing file.
are_all_segments_ready(segments, expected_segments) ==
    /\ Cardinality(registered(segments)) >= expected_segments
    /\ \A i \in registered(segments) : segments[i] = "completed"

\* modules/segment_merger.py, merge_segments: RuntimeError unless all
\* segments are ready; else _perform_merge writes the concat file over the
\* registered segments and runs ffmpeg, which succeeds or fails.
merge_segments(segments, expected_segments, ffmpeg_ok) ==
    IF are_all_segments_ready(segments, expected_segments)
    THEN [segments |-> segments,
          concat |-> registered(segments),
          result |-> IF ffmpeg_ok THEN "merged" ELSE "error"]
    ELSE [segments |-> segments, concat |-> {}, result |-> "error"]

\* GPURenderEngine.merge_segments on the results of the N segment tasks:
\* expected_segments = len(results); only results with success are
\* registered (as completed, with their output_path); get_failed_segments
\* is then empty, so the call goes on to SegmentMerger.merge_segments.
engine_merge_segments(ffmpeg_ok) ==
    /\ merger.result = "none"
    /\ \A i \in SegmentIds : merger.segments[i] \in {"failed", "completed", "nofile"}
    /\ LET success == [i \in SegmentIds |->
                         IF merger.segments[i] = "failed" THEN "missing"
                         ELSE merger.segments[i]]
           done == merge_segments(success, MergeSegments, ffmpeg_ok)
       IN  /\ merger' = [done EXCEPT !.segments = merger.segments]
           /\ files' = IF done.result = "merged"
                       THEN cleanup_segments(perform_merge_files(files, done),
                                             success)
                       ELSE perform_merge_files(files, done)
    /\ UNCHANGED merger_rest

\* StreamCoordinator.merge_final_video -> SegmentMerger.merge_segments on whatever
\* was registered; expected_segments = num_workers.
merge_final_video(ffmpeg_ok) ==
    /\ merger.result = "none"
    /\ merger' = merge_segments(merger.segments, MergeSegments, ffmpeg_ok)
    /\ files' = perform_merge_files(files, merger')
    /\ UNCHANGED merger_rest

\* app/pipeline/merger.py, SegmentMerger.merge_segments: the concat file is
\* written over the segments that are completed with an existing file;
\* with none, or when ffmpeg fails, the result is success: False.
pipeline_merge_segments(ffmpeg_ok) ==
    /\ merger.result = "none"
    /\ LET completed_segments ==
               {i \in SegmentIds : merger.segments[i] = "completed"}
       IN  merger' =
             IF completed_segments = {}
             THEN [merger EXCEPT !.result = "error"]
             ELSE [merger EXCEPT
                     !.concat = completed_segments,
                     !.result = IF ffmpeg_ok THEN "merged" ELSE "error"]
    /\ files' = perform_merge_files(files, merger')
    /\ UNCHANGED merger_rest

InitMergerSpec ==
    /\ InitCore /\ InitPlannerIdle /\ InitEngine("idle")
    /\ InitPool /\ InitRecovery /\ InitCeleryTask /\ InitCallback
    /\ InitClock /\ InitMonitors
    /\ merger \in [segments : [SegmentIds -> SegmentStates],
                    concat : {{}},
                    result : {"none"}]
    /\ files = {SegmentFile(i) : i \in {k \in SegmentIds :
                                           merger.segments[k] = "completed"}}

\* GPURenderEngine.render_segment of segment worker_id ends: it returns its
\* result and output_path exists; or it raises and except Exception has
\* unlinked output_path; or the task was killed at task_time_limit, no
\* handler ran and what the encoder had written (left) stays.
render_segment(worker_id, outcome, left) ==
    /\ merger.result = "none"
    /\ merger.segments[worker_id] = "missing"
    /\ merger' = [merger EXCEPT !.segments[worker_id] =
                     IF outcome = "returns" THEN "completed" ELSE "failed"]
    /\ files' = IF outcome = "returns" \/ (outcome = "killed" /\ left)
                THEN files \cup {SegmentFile(worker_id)}
                ELSE files \ {SegmentFile(worker_id)}
    /\ UNCHANGED merger_rest

NextMerger ==
    \/ \E ffmpeg_ok \in BOOLEAN : engine_merge_segments(ffmpeg_ok)
    \/ \E ffmpeg_ok \in BOOLEAN : merge_final_video(ffmpeg_ok)
    \/ \E ffmpeg_ok \in BOOLEAN : pipeline_merge_segments(ffmpeg_ok)

SpecMerger == InitMergerSpec /\ [][NextMerger]_vars

\* ------------------------------------------------------------ SpecRecovery
\* The retries of a failing segment: ErrorRecovery of
\* modules/segment_merger.py, called once per failure of a segment, and the
\* Celery task render.segment, which retries itself.

recovery_rest ==
    <<base_rest, pool, merger, callback, files, clock, monitors>>

\* The sum of retry_counts: the handle_segment_failure calls made.
RECURSIVE failures(_, _)
failures(retry_counts, ids) ==
    IF ids = {} THEN 0
    ELSE LET i == CHOOSE x \in ids : TRUE
         IN  retry_counts[i] + failures(retry_counts, ids \ {i})

\* handle_segment_failure(segment, retry_callback): the count of the segment
\* goes up; within max_retries a retry_callback, if given, is awaited, and
\* True is returned when it succeeds; in every other case the segment is
\* appended to failed_segments and False is returned.
handle_segment_failure(worker_id, retry_callback) ==
    /\ failures(recovery.retry_counts, RecoveryIds) < MaxFailures
    /\ LET count == recovery.retry_counts[worker_id] + 1
           called == count <= max_retries /\ retry_callback # "none"
       IN  recovery' =
             [retry_counts |-> [recovery.retry_counts EXCEPT ![worker_id] = count],
              retried |-> IF called THEN Append(recovery.retried, worker_id)
                          ELSE recovery.retried,
              failed_segments |->
                  IF called /\ retry_callback = "ok"
                  THEN recovery.failed_segments
                  ELSE Append(recovery.failed_segments, worker_id)]
    /\ UNCHANGED <<recovery_rest, celery_task>>

\* can_recover(): with no segment in retry_counts True, else
\* len(failed_segments) / len(retry_counts) < 0.25.
can_recover(r) ==
    LET total_segments == Cardinality({i \in RecoveryIds : r.retry_counts[i] > 0})
        failed_count == Len(r.failed_segments)
    IN  IF total_segments = 0 THEN TRUE
        ELSE 4 * failed_count < total_segments

\* The broker delivers render.segment for the first time.
deliver ==
    /\ celery_task.state = "idle"
    /\ celery_task' = [celery_task EXCEPT !.state = "running", !.runs = 1]
    /\ UNCHANGED <<recovery_rest, recovery>>

\* render_engine.render_segment returns: the task returns its result.
segment_done ==
    /\ celery_task.state = "running"
    /\ celery_task' = [celery_task EXCEPT !.state = "succeeded"]
    /\ UNCHANGED <<recovery_rest, recovery>>

\* render_engine.render_segment raises: below max_retries the task asks for
\* a retry after 2 ** self.request.retries seconds, else the exception is
\* raised and the task has failed.
segment_failed ==
    /\ celery_task.state = "running"
    /\ celery_task' =
          IF celery_task.retries < segment_max_retries
          THEN [celery_task EXCEPT
                  !.state = "retry",
                  !.countdowns = Append(@, 2 ^ celery_task.retries)]
          ELSE [celery_task EXCEPT !.state = "failed"]
    /\ UNCHANGED <<recovery_rest, recovery>>

\* The countdown is over: the task runs again with request.retries + 1.
redeliver ==
    /\ celery_task.state = "retry"
    /\ celery_task' = [celery_task EXCEPT
                         !.state = "running",
                         !.retries = @ + 1,
                         !.runs = @ + 1]
    /\ UNCHANGED <<recovery_rest, recovery>>

NextRecovery ==
    \/ \E worker_id \in RecoveryIds, retry_callback \in {"none", "ok", "raises"} :
          handle_segment_failure(worker_id, retry_callback)
    \/ deliver
    \/ segment_done
    \/ segment_failed
    \/ redeliver

SpecRecovery == Init /\ [][NextRecovery]_vars

\* ------------------------------------------------------------ SpecCallback
\* CallbackService.send_callback step by step, called by a coordinator for
\* the terminal callback of its job: one step per POST and per sleep.

callback_rest ==
    <<pool, merger, recovery, celery_task, files, clock, monitors>>

\* CallbackService(timeout=30, retry_count=3)
retry_count == 3

\* retry_attempts = retry_count or self.retry_count; 0 stands for the None
\* every caller leaves the argument at.
retry_attempts(arg) == IF arg = 0 THEN retry_count ELSE arg

\* What one POST attempt ends with: status 200, another status,
\* asyncio.TimeoutError, aiohttp.ClientError, any other Exception.
Outcomes == {"200", "500", "TimeoutError", "ClientError", "Exception"}

\* The except clauses of the attempt: TimeoutError, ClientError, Exception.
caught_timeout_only(outcome) == outcome = "TimeoutError"
caught(outcome) == outcome \in {"TimeoutError", "ClientError", "Exception"}

\* if response.status == 200: return True
acknowledged_never(outcome) == FALSE
acknowledged(outcome) == outcome = "200"

\* The coordinator calls send_callback (completed) or send_error (failed):
\* the loop starts with attempt 0, or ends at once when range() is empty.
send_callback(w) ==
    /\ pc[w] \in {"cb_done", "cb_fail"}
    /\ callback.phase = "none"
    /\ callback' = [phase |-> IF retry_attempts(0) > 0 THEN "post" ELSE "returned",
                    attempt |-> 0,
                    posts |-> <<>>,
                    sleeps |-> <<>>,
                    result |-> IF retry_attempts(0) > 0 THEN "none" ELSE "false"]
    /\ UNCHANGED <<base_rest, callback_rest>>

\* One attempt: session.post answers or raises.  200 returns True; an
\* exception no clause catches leaves send_callback; otherwise, before the
\* last attempt, asyncio.sleep(2 ** attempt), and after it return False.
post(outcome) ==
    /\ callback.phase = "post"
    /\ callback' =
          LET posts == Append(callback.posts, outcome)
          IN  IF acknowledged(outcome)
              THEN [callback EXCEPT !.posts = posts, !.phase = "returned",
                                    !.result = "true"]
              ELSE IF outcome \notin {"200", "500"} /\ ~caught(outcome)
              THEN [callback EXCEPT !.posts = posts, !.phase = "raised",
                                    !.result = "raise"]
              ELSE IF callback.attempt < retry_attempts(0) - 1
              THEN [callback EXCEPT !.posts = posts, !.phase = "sleep",
                                    !.sleeps = Append(@, 2 ^ callback.attempt)]
              ELSE [callback EXCEPT !.posts = posts, !.phase = "returned",
                                    !.result = "false"]
    /\ UNCHANGED <<base_rest, callback_rest>>

\* asyncio.sleep returns: the next attempt of the loop.
sleep_done ==
    /\ callback.phase = "sleep"
    /\ callback' = [callback EXCEPT !.phase = "post", !.attempt = @ + 1]
    /\ UNCHANGED <<base_rest, callback_rest>>

\* send_callback has returned or raised, the coordinator goes on.  Returned:
\* finally: self.segment_results.clear(); start(): self.current_job = None.
\* Raised inside the try: except Exception: fail_job, send_error.  Raised
\* inside that handler: finally, then except Exception of start().
cb_resume(w) ==
    /\ pc[w] \in {"cb_done", "cb_fail"}
    /\ callback.phase \in {"returned", "raised"}
    /\ callback' = [callback EXCEPT !.phase = "none", !.attempt = 0,
                                    !.posts = <<>>, !.sleeps = <<>>]
    /\ IF callback.phase = "raised" /\ pc[w] = "cb_done"
       THEN /\ handle_exception(w)
            /\ UNCHANGED <<segment_results, current_job>>
       ELSE /\ segment_results' = [segment_results EXCEPT ![w] = 0]
            /\ current_job' =
                  IF callback.phase = "raised" THEN current_job
                  ELSE [current_job EXCEPT ![w] = 0]
            /\ pc' = [pc EXCEPT ![w] = "idle"]
            /\ UNCHANGED <<active, jobs, term_cb>>
    /\ UNCHANGED <<queue, job_id, job, api_steps, calls, returned, is_running,
                   seg, available, stop_pc, reported, cancel_req>>
    /\ UNCHANGED cancelled_pending
    /\ UNCHANGED <<planner, engine, callback_rest>>

NextSend ==
    \/ \E outcome \in Outcomes : post(outcome)
    \/ sleep_done

NextCallback ==
    \/ add_job(CallbackJobs, WorkerCalls)
    \/ start(1)
    \/ poll(1)
    \/ download_ok(1)
    \/ info_ok(1)
    \/ step_fail(1)
    \/ \E j \in 1..CallbackJobs : seg_acquire(j)
    \/ \E j \in 1..CallbackJobs : seg_render_ok(j)
    \/ \E j \in 1..CallbackJobs : seg_render_fail(j)
    \/ gather_done(1)
    \/ merge_ok(1)
    \/ upload_ok(1)
    \/ send_callback(1)
    \/ NextSend
    \/ cb_resume(1)

SpecCallback == Init /\ [][NextCallback]_vars

\* The event loop runs the coroutine, and every POST ends within the
\* ClientTimeout(total=self.timeout) of the session.
SpecCallbackLive == SpecCallback /\ WF_vars(NextSend)

\* --------------------------------------------------------------- SpecFiles
\* The temp files of one job of the render engine: its segments are
\* rendered, then GPURenderEngine.merge_segments ends the job.

NextFiles ==
    \/ \E worker_id \in SegmentIds, outcome \in {"returns", "raises", "killed"},
          left \in BOOLEAN : render_segment(worker_id, outcome, left)
    \/ \E ffmpeg_ok \in BOOLEAN : engine_merge_segments(ffmpeg_ok)

SpecFiles == Init /\ [][NextFiles]_vars

\* ------------------------------------------------------------- SpecTimeout
\* One coordinator and its job, with the wall clock: process_job_parallel
\* takes start_time = time.time() and time passes while it awaits.

\* RENDERING_TIMEOUT: int = Field(default=1800, ...), in seconds.
RENDERING_TIMEOUT == 1800

\* Time passes while the coordinator holds a job.  Neither start() nor
\* process_job_parallel reads RENDERING_TIMEOUT or wraps an await of the job
\* in a time limit: the step changes the clock only.
tick ==
    /\ current_job[1] # 0
    /\ clock + TickSeconds <= MaxClock
    /\ clock' = clock + TickSeconds
    /\ UNCHANGED <<base_rest, pool, merger, recovery, celery_task, callback,
                   files, monitors>>

NextTimeout ==
    \/ add_job(TimeoutJobs, WorkerCalls)
    \/ start(1)
    \/ poll(1)
    \/ download_ok(1)
    \/ info_ok(1)
    \/ step_fail(1)
    \/ \E j \in 1..TimeoutJobs : seg_acquire(j)
    \/ \E j \in 1..TimeoutJobs : seg_render_ok(j)
    \/ \E j \in 1..TimeoutJobs : seg_render_fail(j)
    \/ gather_done(1)
    \/ merge_ok(1)
    \/ upload_ok(1)
    \/ cb_return(1)
    \/ tick

SpecTimeout == Init /\ [][NextTimeout]_vars

\* -------------------------------------------------------- SpecBackpressure
\* The BackpressureManager of the render engine: render_segment calls
\* apply_backpressure once per frame.  Pressures are in tenths, the factor in
\* units of 1 / Unit, the delay in milliseconds / Unit.

\* max(memory_pressure, cpu_pressure): values below, at and above each
\* threshold (0.7, 1.0, 1.5).
Pressures == {5, 7, 10, 12, 15, 20}

\* check_pressure, "Adjust slowdown factor".
check_pressure_unclamped(slowdown_factor, max_pressure) ==
    IF max_pressure > 15 THEN (slowdown_factor * 12) \div 10
    ELSE IF max_pressure > 10 THEN Min(2 * Unit, (slowdown_factor * 11) \div 10)
    ELSE IF max_pressure < 7 THEN Max({Unit, (slowdown_factor * 9) \div 10})
    ELSE slowdown_factor
check_pressure(slowdown_factor, max_pressure) ==
    IF max_pressure > 15 THEN Min(3 * Unit, (slowdown_factor * 12) \div 10)
    ELSE IF max_pressure > 10 THEN Min(2 * Unit, (slowdown_factor * 11) \div 10)
    ELSE IF max_pressure < 7 THEN Max({Unit, (slowdown_factor * 9) \div 10})
    ELSE slowdown_factor

\* apply_backpressure: factor = check_pressure(), which returns the factor
\* as it is when the last check is less than a second old (due = FALSE) and
\* samples the pressure otherwise; if factor > 1.0: sleep(0.033 * (factor -
\* 1.0)).
apply_backpressure(due, max_pressure) ==
    /\ backpressure.samples < MaxSamples
    /\ LET factor == IF due
                     THEN check_pressure(backpressure.slowdown_factor,
                                         max_pressure)
                     ELSE backpressure.slowdown_factor
       IN  backpressure' =
             [slowdown_factor |-> factor,
              samples |-> backpressure.samples + 1,
              pressure |-> IF due THEN max_pressure ELSE 0,
              slept |-> factor > Unit,
              delay |-> IF factor > Unit THEN 33 * (factor - Unit) ELSE 0]
    /\ UNCHANGED <<base_rest, pool, merger, recovery, celery_task, callback,
                   files, clock, reclaim, merging>>

NextBackpressure ==
    \E due \in BOOLEAN, max_pressure \in Pressures :
        apply_backpressure(due, max_pressure)

SpecBackpressure == Init /\ [][NextBackpressure]_vars

\* ---------------------------------------------------------------- SpecReclaim
\* The frame loop of GPURenderEngine.render_segment after add_frame: the frame
\* is counted, progress is published every 30 frames and the memory optimizer
\* is asked for a pass by the if / elif on the frame count.
ReclaimFrames == 330

\* The level garbage_collect is called with after the frame, 0 when not called.
gc_level(frames_processed) ==
    IF frames_processed % 100 = 0 THEN 1
    ELSE IF frames_processed % 300 = 0 THEN 2
    ELSE 0

render_frame(success) ==
    /\ reclaim.frames_processed < ReclaimFrames
    /\ LET n == reclaim.frames_processed + 1
           level == gc_level(n)
       IN reclaim' = [frames_processed |-> n,
                      frames_dropped |-> reclaim.frames_dropped
                                            + (IF success THEN 0 ELSE 1),
                      published |-> reclaim.published
                                            + (IF n % 30 = 0 THEN 1 ELSE 0),
                      light |-> reclaim.light + (IF level = 1 THEN 1 ELSE 0),
                      aggressive |-> reclaim.aggressive
                                            + (IF level = 2 THEN 1 ELSE 0),
                      level |-> level,
                      sent |-> (n % 30 = 0)]
    /\ UNCHANGED <<base_rest, pool, merger, recovery, celery_task, callback,
                   files, clock, backpressure, merging>>

NextReclaim == \E success \in BOOLEAN : render_frame(success)

SpecReclaim == Init /\ [][NextReclaim]_vars

\* ---------------------------------------------------------------- SpecMerging
\* Concurrent merge_segments calls on one SegmentMerger.  The body of
\* `async with self.merge_lock` has no await and neither has the readiness
\* check, so a call runs from its start to its raise or to the await of
\* _perform_merge in one step; the finally runs when that await ends.
MergeRest ==
    <<base_rest, pool, merger, recovery, celery_task, callback, files, clock,
      backpressure, reclaim>>

\* A merge_segments whose "Merge already in progress" is raised inside the try,
\* so that its finally clears the flag of the running merge.
merge_segments_enter_in_try(c, ready) ==
    /\ merging.call[c] = "idle"
    /\ merging' =
          IF merging.is_merging
          THEN [is_merging |-> FALSE,
                call |-> [merging.call EXCEPT ![c] = "rejected"]]
          ELSE IF ~ready
          THEN [merging EXCEPT !.call[c] = "failed"]
          ELSE [is_merging |-> TRUE,
                call |-> [merging.call EXCEPT ![c] = "merging"]]
    /\ UNCHANGED MergeRest

\* merge_segments up to its first await: under the lock, raise when
\* is_merging, else set it; then raise when the segments are not ready (the
\* finally clears the flag in the same step), else await _perform_merge.
merge_segments_enter(c, ready) ==
    /\ merging.call[c] = "idle"
    /\ merging' =
          IF merging.is_merging
          THEN [merging EXCEPT !.call[c] = "rejected"]
          ELSE IF ~ready
          THEN [merging EXCEPT !.call[c] = "failed"]
          ELSE [is_merging |-> TRUE,
                call |-> [merging.call EXCEPT ![c] = "merging"]]
    /\ UNCHANGED MergeRest

\* _perform_merge returns, raises, or the task is cancelled while awaiting it;
\* finally: self.is_merging = False.
merge_segments_finally(c, outcome) ==
    /\ merging.call[c] = "merging"
    /\ merging' = [is_merging |-> FALSE,
                   call |-> [merging.call EXCEPT ![c] = outcome]]
    /\ UNCHANGED MergeRest

\* The caller has the result or the exception and may call again.
merge_segments_return(c) ==
    /\ merging.call[c] \in {"rejected", "failed", "done", "cancelled"}
    /\ merging' = [merging EXCEPT !.call[c] = "idle"]
    /\ UNCHANGED MergeRest

NextMerging ==
    \/ \E c \in MergeCalls, ready \in BOOLEAN : merge_segments_enter(c, ready)
    \/ \E c \in MergeCalls, outcome \in {"done", "failed", "cancelled"} :
            merge_segments_finally(c, outcome)
    \/ \E c \in MergeCalls : merge_segments_return(c)

SpecMerging == Init /\ [][NextMerging]_vars

\* ------------------------------------------------------------- properties
\* C1: under any interleaving of get_next_job, complete_job, fail_job and
\* cancel_job by any number of coordinators, the number of in-flight jobs
\* never exceeds max_concurrent.
C1_InFlightBound == Cardinality(active) <= max_concurrent

\* C2: no job is leased to two coordinators at the same time, for every
\* sequence of add_job, get_next_job, complete_job, fail_job and cancel_job.
\* (A coordinator holds its lease from the return of get_next_job until it
\* calls complete_job or fail_job.)
C2_NoDoubleLease ==
    \A c, d \in Coord :
        (c # d /\ pc[c] = "holding" /\ pc[d] = "holding") =>
            job_id[c] # job_id[d]

\* C6: the job of a coordinator that crashed while holding it goes back to
\* pending and is eventually leased again and completed.
C6_CrashedLeaseCompletes ==
    \A j \in JobIds :
        (\E c \in Coord : pc[c] = "crashed" /\ job_id[c] = j)
            ~> (jobs[j].status = "completed")

\* C7: every job id is in at most one of pending, in-flight and terminal, and
\* at most once in pending.
C7_OnePlace ==
    \A j \in JobIds :
        /\ Occurrences(queue, j) <= 1
        /\ ~(InQueue(queue, j) /\ j \in active)
        /\ ~(InQueue(queue, j) /\ jobs[j].status \in Terminal)
        /\ ~(j \in active /\ jobs[j].status \in Terminal)

\* C8: a stored record with status completed has progress 100, and a stored
\* record with a terminal status has completed_at set.
C8_TerminalFields ==
    \A j \in JobIds :
        /\ jobs[j].status = "completed" => jobs[j].progress = 100
        /\ jobs[j].status \in Terminal => jobs[j].completed_at

\* A job was leased, its progress was updated, and complete_job stored it.
C8_Witness ==
    \E j \in JobIds :
        /\ jobs[j].status = "completed"
        /\ j \in returned
        /\ \A c \in Coord : pc[c] = "idle"

\* C9: when get_next_job returns job J, J is no longer in pending, J is in
\* the in-flight set, and the returned object and the stored record have
\* status processing and started_at set.
C9_LeaseEffect ==
    [][\A c \in Coord :
         (pc[c] = "gn_hset" /\ pc'[c] = "holding") =>
            /\ ~InQueue(queue', job_id'[c])
            /\ job_id'[c] \in active'
            /\ job'[c].status = "processing" /\ job'[c].started_at
            /\ jobs'[job_id'[c]] = job'[c]]_vars

\* C10: if add_job(A) completes before add_job(B) starts and neither is
\* cancelled, no get_next_job returns B before one has returned A.  (Ids are
\* added in increasing order.)
C10_Fifo == \A a, b \in JobIds : (a < b /\ b \in returned) => a \in returned

\* C3: for every leased job exactly one terminal callback is sent, on every
\* path including stop() and task cancellation: never more than one, and one
\* once the coordinator is done with the job.
C3_OneTerminalCallback ==
    \A w \in Coord :
        /\ term_cb[w] <= 1
        /\ (pc[w] \in {"idle", "ended"} /\ job_id[w] # 0) => term_cb[w] = 1

\* C4: the progress values written to a job's record and sent in its
\* callbacks never decrease.
C4_ProgressMonotone == [][\A j \in JobIds : reported'[j] >= reported[j]]_vars

\* C5: after cancel_job on a job that is being processed, the job's record is
\* never processing or completed again.
C5_CancelSticks ==
    \A j \in cancel_req : jobs[j].status \notin {"processing", "completed"}

\* C11: after cancel_job(J) on a job J that is in the pending list, J is not
\* in the pending list and its stored status is cancelled when the call
\* returns, and no later get_next_job pops or returns J (until J is submitted
\* again by add_job).
C11_CancelPending ==
    [][/\ (cn_pc = "cn_hset" /\ cn_pc' = "idle" /\ cn_id \in cancelled_pending')
            => (~InQueue(queue', cn_id) /\ jobs'[cn_id].status = "cancelled")
       /\ \A c \in Coord :
            (pc[c] = "gn_lpop" /\ pc'[c] = "gn_hget")
                => job_id'[c] \notin cancelled_pending
       /\ \A j \in cancelled_pending' : ~InQueue(queue', j)]_vars

\* cancel_job has returned for a job it found pending, and a coordinator has
\* polled the queue since.
C11_Witness ==
    \E j \in cancelled_pending :
        /\ cn_pc = "idle"
        /\ jobs[j].status = "cancelled"
        /\ \E c \in Coord : pc[c] = "gn_lpop"

\* C12: for every cue list (cue times need not lie inside [0, T)), T > 0 and
\* N >= 1 the segments start at 0, end at T, and each starts where the
\* previous one ends, with start < end.
C12_Partition ==
    (pl_pc = "done" /\ pl_T > 0) =>
        /\ pl_segments # <<>>
        /\ pl_segments[1].start_time = 0
        /\ pl_segments[Len(pl_segments)].end_time = pl_T * Ticks
        /\ \A i \in 1..Len(pl_segments) :
              pl_segments[i].start_time < pl_segments[i].end_time
        /\ \A i \in 1..(Len(pl_segments) - 1) :
              pl_segments[i].end_time = pl_segments[i + 1].start_time

\* C13: for every scenario and T > 0, smart_segment_split returns exactly
\* num_workers segments.
C13_ExactlyN == (pl_pc = "done" /\ pl_T > 0) => Len(pl_segments) = pl_N

\* C14: every segment the planner returns lasts at least min(5, T) and at most
\* 60 seconds, unless it is the only segment.
C14_DurationBounds ==
    (pl_pc = "done" /\ Len(pl_segments) > 1) =>
        \A i \in 1..Len(pl_segments) :
            LET d == pl_segments[i].end_time - pl_segments[i].start_time
            IN  /\ d >= Min(min_segment_duration, pl_T) * Ticks
                /\ d <= max_segment_duration * Ticks

\* C15: with T = 0 the planner returns exactly one segment, [0, 0), for every
\* N and with or without cues.
C15_EmptyDuration ==
    (pl_pc = "done" /\ pl_T = 0) =>
        /\ Len(pl_segments) = 1
        /\ pl_segments[1].start_time = 0
        /\ pl_segments[1].end_time = 0

\* C16: after any sequence of put_frame and get_frame calls the number of
\* frames held in the frame queue never exceeds the queue's current
\* max_size, also when render_segment has lowered max_size to the memory
\* optimizer's frame_buffer_size.
C16_SizeBound == Len(frame_queue) <= max_size

\* C17: with one producer and one consumer, current_memory is never
\* negative, never less than the total size of the frames held in the queue
\* and never more than max_memory_bytes.
C17_MemoryBounds ==
    /\ current_memory >= 0
    /\ held_bytes(frame_queue) <= current_memory
    /\ current_memory <= max_memory_bytes

\* The budget is used up by a full queue and the frame the writer has
\* dequeued and not yet released.
C17_Witness ==
    /\ current_memory = max_memory_bytes
    /\ writer_pc = "got"
    /\ Len(frame_queue) = maxsize
    /\ held_bytes(frame_queue) < current_memory

\* C18 as stated: in every state the number of put_frame calls made equals
\* dropped_frames + processed_frames + the frames still held in the queue.
C18_CountedOnce ==
    put_calls = dropped_frames + processed_frames + Len(frame_queue)

\* C18 amended: in every state the number of put_frame calls made equals
\* dropped_frames + processed_frames + the frames still held in the queue
\* + the frame, if any, that get_frame has taken out of the queue and not
\* yet counted.
C18_CountedOnceDequeued ==
    put_calls = dropped_frames + processed_frames + Len(frame_queue)
                + (IF frame # NoFrame THEN 1 ELSE 0)

\* Frames were dropped, processed and are held while the writer has one
\* dequeued.
C18_Witness ==
    /\ writer_pc = "got"
    /\ frame # NoFrame
    /\ dropped_frames > 0
    /\ processed_frames > 0
    /\ frame_queue # <<>>

\* C19: the frames written to the encoder's stdin have strictly increasing
\* frame numbers, under any interleaving of the producer and the writer task
\* and any sequence of head drops and new-frame drops.
C19_Ascending ==
    \A i, k \in DOMAIN stdin : i < k => stdin[i] < stdin[k]

\* Two frames were written with a dropped frame between them.
C19_Witness ==
    /\ Len(stdin) >= 2
    /\ dropped_frames > 0
    /\ \E i \in 1..(Len(stdin) - 1) : stdin[i + 1] > stdin[i] + 1

\* C20: on every exit path of render_segment (success, an exception after a
\* resource was acquired, cancellation) the browser it created is closed and
\* the encoder subprocess it started is finalized.
C20_Released ==
    rs_pc = "done" => (browser # "open" /\ process # "running")

\* C21: when a segment task of a job fails, by the time process_job_parallel
\* has finished (the coordinator is back in its loop) the job is marked
\* failed, and no task of the job is still waiting for a worker, rendering
\* or holding a pool worker.
C21_FailedJobStopped ==
    \A j \in JobIds :
        (seg[j].owner # 0 /\ pc[seg[j].owner] = "idle")
            => (seg[j].wait = 0 /\ seg[j].run = 0)

\* C22: once a write of a frame to the encoder has failed, the producer
\* queues no further frame of the range, and render_segment does not return
\* a success result: the error reaches its caller.
C22_WriteFailureSurfaces ==
    [][writer_pc = "broken"
          => /\ put_calls' = put_calls
             /\ ~(rs_pc' = "done" /\ rs_exc' = "none")]_vars

\* C23: a pool worker is held by at most one segment task at a time: between
\* get_available_worker returning w and the matching release_worker(w) no
\* other get_available_worker returns w (w is neither held by another task
\* nor in the available queue), and held workers plus queued ids never
\* exceed pool_size.
C23_ExclusiveWorker ==
    /\ \A t, u \in Tasks :
          (t # u /\ pool.task[t].worker # NoWorker)
              => pool.task[t].worker # pool.task[u].worker
    /\ \A i \in DOMAIN pool.available_workers :
          pool.available_workers[i] \notin held_workers
    /\ Cardinality(held_workers) + Len(pool.available_workers) <= pool_size

\* Every worker is held, one has been released and leased again, and a
\* further task waits for a worker.
C23_Witness ==
    /\ Cardinality(held_workers) = pool_size
    /\ pool.available_workers = <<>>
    /\ \E t \in Tasks : pool.task[t].pc = "get"
    /\ \E t \in Tasks : pool.task[t].worker = 0 /\ t > pool_size

\* C24: a merge produces a final output only when all N expected segments
\* are registered as completed with an existing file; otherwise the merge
\* fails with an error and no concat step is run over a subset of the
\* segments.
C24_MergeNeedsAll ==
    merger.result # "none"
        => /\ merger.concat \in {{}, SegmentIds}
           /\ merger.result = "merged"
                 => \A i \in SegmentIds : merger.segments[i] = "completed"

\* C25: can_recover returns true iff (number of permanently failed
\* segments) / (total number of segments of the job) < 0.25.
C25_CanRecover ==
    can_recover(recovery)
        <=> 4 * Cardinality({recovery.failed_segments[k] :
                                k \in DOMAIN recovery.failed_segments})
                < RecoverySegments

\* C26: a failing segment is re-attempted at most maxSegmentRetries (2)
\* times, the delays before the successive retries are 2, 4, 8 seconds, and
\* a segment whose failure is final is not attempted again.
C26_BoundedRetries ==
    /\ celery_task.runs <= 1 + 2
    /\ \A k \in DOMAIN celery_task.countdowns :
          celery_task.countdowns[k] = 2 ^ k
    /\ \A i \in RecoveryIds :
          Cardinality({k \in DOMAIN recovery.retried : recovery.retried[k] = i})
              <= 2
    /\ [][\A i \in RecoveryIds :
            (\E k \in DOMAIN recovery.failed_segments :
                recovery.failed_segments[k] = i)
              => Cardinality({k \in DOMAIN recovery.retried' : recovery.retried'[k] = i})
                   = Cardinality({k \in DOMAIN recovery.retried : recovery.retried[k] = i})]_vars

\* C27: send_callback always ends and never raises; it posts at most
\* retry_count times, stops at the first attempt answered with 200 and then
\* returns true, returns false when no attempt got 200, and sleeps
\* 2^attempt seconds between attempts but not after the last one.
C27_SendCallback ==
    /\ [](/\ callback.phase # "raised"
          /\ Len(callback.posts) <= retry_count
          /\ \A k \in 1..(Len(callback.posts) - 1) : callback.posts[k] # "200"
          /\ \A k \in DOMAIN callback.sleeps : callback.sleeps[k] = 2 ^ (k - 1)
          /\ callback.phase \in {"post", "sleep"}
                => Len(callback.sleeps) = Len(callback.posts)
          /\ callback.phase = "returned"
                => /\ callback.result \in {"true", "false"}
                   /\ callback.result = "true"
                         <=> callback.posts[Len(callback.posts)] = "200"
                   /\ callback.result = "false"
                         => Len(callback.posts) = retry_count
                   /\ Len(callback.sleeps) = Len(callback.posts) - 1)
    /\ (callback.phase \in {"post", "sleep"} ~> callback.phase = "returned")

\* Every attempt failed: three posts, sleeps of 1 and 2 seconds between
\* them, and False returned.
C27_Witness ==
    /\ callback.phase = "returned"
    /\ callback.result = "false"
    /\ Len(callback.posts) = retry_count
    /\ callback.sleeps = <<1, 2>>

\* C28: no step of a send_callback in which no attempt got 200, and no
\* step the coordinator takes when that call has ended, changes the job's
\* stored record or its in-flight membership, and the call does not raise;
\* a job for which complete_job has run stays completed.
C28_CallbackFailureKeepsState ==
    /\ [][(/\ callback' # callback
           /\ callback.phase # "none"
           /\ callback'.result # "true")
          => /\ jobs'[job_id[1]] = jobs[job_id[1]]
             /\ (job_id[1] \in active') = (job_id[1] \in active)
             /\ callback'.phase # "raised"]_vars
    /\ [](pc[1] = "cb_done"
            => /\ jobs[job_id[1]].status = "completed"
               /\ jobs[job_id[1]].progress = 100
               /\ job_id[1] \notin active)

\* The completion callback was never acknowledged, the coordinator went on,
\* and the job is still completed.
C28_Witness ==
    /\ pc[1] = "idle"
    /\ callback.phase = "none"
    /\ callback.result = "false"
    /\ job_id[1] # 0
    /\ jobs[job_id[1]].status = "completed"
    /\ job_id[1] \notin active

\* C29: a job whose processing has run longer than renderingTimeout is no
\* longer processing: it was cancelled, marked failed with the timeout
\* error, and has left the in-flight set.
C29_TimeoutEnforced ==
    clock > RENDERING_TIMEOUT
        => \A j \in 1..TimeoutJobs :
              /\ jobs[j].status # "processing"
              /\ j \notin active

\* C30: when the processing of a job has ended, merged or failed, none of
\* its temp files (segment files, concat manifest, final file) exists.
C30_TempFilesRemoved == merger.result # "none" => files = {}

\* C31: every put_frame call, for the frame size it was given, does one of
\* three things.  A size that would push current_memory over
\* max_memory_bytes: the new frame is rejected, dropped_frames goes up by
\* one, the queue and current_memory stay.  Otherwise, with the queue at its
\* element capacity (the maxsize of its asyncio.Queue): exactly the oldest
\* frame leaves, the new frame enters at the tail, dropped_frames goes up by
\* one.  Otherwise the new frame enters at the tail and nothing is dropped.
C31_DropPolicy ==
    [][put_calls' # put_calls =>
        \E size \in FrameSizes :
            LET new == [frame_number |-> frame_num, size |-> size] IN
            IF current_memory + size > max_memory_bytes
            THEN /\ frame_queue' = frame_queue
                 /\ current_memory' = current_memory
                 /\ dropped_frames' = dropped_frames + 1
            ELSE IF Len(frame_queue) = maxsize
            THEN /\ frame_queue' = Tail(frame_queue) \o <<new>>
                 /\ current_memory' =
                       current_memory - Head(frame_queue).size + size
                 /\ dropped_frames' = dropped_frames + 1
            ELSE /\ frame_queue' = frame_queue \o <<new>>
                 /\ current_memory' = current_memory + size
                 /\ dropped_frames' = dropped_frames]_vars

\* Four frames were offered and none consumed: frame 2 found the queue
\* full and pushed frame 0 out, frame 3 was over the byte budget and was
\* rejected.
C31_Witness ==
    /\ frame_num = 4
    /\ processed_frames = 0
    /\ frame = NoFrame
    /\ dropped_frames = 2
    /\ Len(frame_queue) = 2
    /\ frame_queue[1].frame_number = 1
    /\ frame_queue[2].frame_number = 2

\* C32: the slowdown factor S starts at 1.0 and always satisfies
\* 1.0 <= S <= 3.0; a sample with pressure P > 1.5 gives S' = min(3.0,
\* 1.2 S), with 1.0 < P <= 1.5 S' = min(2.0, 1.1 S), with P < 0.7
\* S' = max(1.0, 0.9 S), any other P and a call that takes no sample S' = S;
\* the producer sleeps 0.033 (S' - 1) seconds, and only when S' > 1.
C32_Slowdown ==
    /\ [](/\ backpressure.samples = 0 => backpressure.slowdown_factor = Unit
          /\ backpressure.slowdown_factor >= Unit
          /\ backpressure.slowdown_factor <= 3 * Unit)
    /\ [][backpressure' # backpressure =>
            LET P == backpressure'.pressure
                S == backpressure.slowdown_factor
                T == backpressure'.slowdown_factor
            IN  /\ P > 15 => T = Min(3 * Unit, (12 * S) \div 10)
                /\ (P > 10 /\ P <= 15) => T = Min(2 * Unit, (11 * S) \div 10)
                /\ (P > 0 /\ P < 7)
                      => T = (IF 9 * S >= 10 * Unit THEN (9 * S) \div 10 ELSE Unit)
                /\ (P = 0 \/ (P >= 7 /\ P <= 10)) => T = S
                /\ backpressure'.slept <=> T > Unit
                /\ backpressure'.slept => backpressure'.delay = 33 * (T - Unit)
                /\ ~backpressure'.slept => backpressure'.delay = 0]_vars

\* Seven samples of high pressure: the factor has reached its cap of 3.0
\* and the producer sleeps 66 ms.
C32_Witness ==
    /\ backpressure.samples = 7
    /\ backpressure.slowdown_factor = 3 * Unit
    /\ backpressure.slept
    /\ backpressure.delay = 66 * Unit

\* C33: while the segments of a job are rendered its reported progress is
\* 20 + floor(60 * completedSegments / N): at most 20 while no segment has
\* finished, 80 when all N have.
C33_SegmentProgress ==
    \A j \in JobIds :
        (Gathering(j) /\ seg[j].total > 0)
            => IF seg[j].done = 0 THEN reported[j] <= 20
               ELSE reported[j] = 20 + (60 * seg[j].done) \div seg[j].total

\* C34: while a segment is rendered, a level 1 pass runs at every processed
\* frame count that is a multiple of 100, a level 2 pass at every count that is
\* a multiple of 300, and progress is published at every multiple of 30.
C34_ReclaimSchedule ==
    reclaim.frames_processed > 0
        => /\ (reclaim.frames_processed % 30 = 0) = reclaim.sent
           /\ (reclaim.frames_processed % 300 = 0) = (reclaim.level = 2)
           /\ (reclaim.frames_processed % 100 = 0) = (reclaim.level >= 1)

\* C35: once a job's stored status is completed, failed or cancelled, no later
\* update_job, complete_job or fail_job by a coordinator or by a segment task
\* of the job changes it; only a new add_job of the id starts it again.
C35_TerminalSticks ==
    [][\A j \in JobIds :
         (jobs[j].status \in {"completed", "failed", "cancelled"}
             /\ jobs'[j].status # jobs[j].status)
                 => jobs'[j].status = "queued"]_vars

\* C36: a job id popped from the pending list by get_next_job is never lost:
\* when the call ends, on every path, the id is in the in-flight set with the
\* job returned to the caller, or it is back in the pending list.
C36_PoppedIdKept ==
    [][\A c \in Coord :
         (pc[c] \in {"gn_hget", "gn_sadd", "gn_hset"}
             /\ pc'[c] \in {"idle", "holding"})
                 => \/ (pc'[c] = "holding" /\ job_id[c] \in active')
                    \/ InQueue(queue', job_id[c])]_vars

\* C37: when finalize runs after the producer's last frame and no write has
\* failed, at the moment the encoder's stdin is closed the frame queue is
\* empty and every frame that was put and not dropped has been written.
C37_DrainedBeforeClose ==
    [][(rs_pc = "finalize_wait" /\ rs_pc' = "finally" /\ writer_pc = "ended")
          => /\ frame_queue = <<>>
             /\ Len(stdin) = put_calls - dropped_frames]_vars

\* C38: while the worker runs, every job that was added and not cancelled is
\* eventually leased, and the stored status of a leased job eventually becomes
\* terminal with its id out of the in-flight set; when the processing of a
\* job ends, by success, exception or task cancellation, its id is not in the
\* in-flight set.
C38_LeasedAndFinished ==
    /\ [][\A w \in Coord :
            (pc[w] \notin {"idle", "ended"} /\ pc'[w] \in {"idle", "ended"})
                => job_id[w] \notin active']_vars
    /\ \A j \in JobIds :
          (InQueue(queue, j) /\ jobs[j].status = "queued")
              ~> (\/ j \in returned
                  \/ jobs[j].status = "cancelled"
                  \/ \A w \in 1..NumWorkers : stop_pc[w] # "none" \/ pc[w] = "ended")
    /\ \A j \in JobIds :
          (j \in active)
              ~> (j \notin active
                   /\ jobs[j].status \in {"completed", "failed", "cancelled"})

\* C39: at most one merge runs at a time on a SegmentMerger and is_merging is
\* true exactly while one runs; a merge_segments call that starts while
\* another runs fails with "Merge already in progress" and leaves the flag
\* set; the flag is false after every merge that ends, successful or not.
C39_OneMerge ==
    /\ [](/\ Cardinality({c \in MergeCalls : merging.call[c] = "merging"}) <= 1
          /\ merging.is_merging
                = (\E c \in MergeCalls : merging.call[c] = "merging"))
    /\ [][\A c \in MergeCalls :
            /\ (merging.call[c] = "idle" /\ merging.is_merging
                   /\ merging'.call[c] # "idle")
                  => (merging'.call[c] = "rejected" /\ merging'.is_merging)
            /\ (merging.call[c] = "idle" /\ merging'.call[c] = "rejected")
                  => merging.is_merging
            /\ (merging.call[c] = "merging" /\ merging'.call[c] # "merging")
                  => ~merging'.is_merging]_vars

\* One merge runs, one call was rejected because of it, and an earlier merge
\* has failed.
C39_Witness ==
    /\ merging.is_merging
    /\ merging.call[1] = "merging"
    /\ merging.call[2] = "rejected"
    /\ merging.call[3] = "failed"

\* C40: the frame counts floor((end - start) * 30) of the segments the planner
\* returns add up to floor(T * 30), the frame count of the whole video.
C40_NoFrameLost ==
    pl_pc = "done" => frames_of(pl_segments, Len(pl_segments)) = pl_T * 30

====
